---- MODULE Spec2Model ----
(***************************************************************************)
(* A model of the TMC5072 stepper driver of src/tmc5072/stepper_motor_tmc.go *)
(*                                                                         *)
(* Two Motor instances (channels 1 and 2 of one chip) share one SPI bus    *)
(* and the package-level globalMu.  Each caller is a goroutine running one *)
(* driver method at a time; every bus transfer is one step of the model.   *)
(*                                                                         *)
(* Units.  Go computes with float64.  The model uses integers:             *)
(*   rpm values are hundredths of an rpm (RpmDen),                         *)
(*   revolutions are tenths of a revolution (RevDen),                      *)
(* and every conversion truncates the exact quotient toward zero, as the   *)
(* int32() conversions of the source do.                                   *)
(***************************************************************************)
EXTENDS Integers, Sequences, FiniteSets, TLC

\* ---------------------------------------------------------------- bounds
NumCallers == 2
\* saturation value of the observation counters (never a guard)
CountCap == 2
\* poll limits used by the concurrent specification instead of 500 / 10000
SmallWarmLimit == 1
SmallStopLimit == 1
\* failed bus operations explored per call
MaxFaults == 1

\* ------------------------------------------------------ program constants
baseClk == 13200000
uSteps == 256
RpmDen == 100
RevDen == 10

chopConf == 108
coolConf == 109
drvStatus == 111
rampMode == 32
xActual == 33
vActual == 34
vStart == 35
a1 == 36
v1 == 37
aMax == 38
vMax == 39
dMax == 40
d1 == 42
vStop == 43
xTarget == 45
iHoldIRun == 48
vCoolThres == 49
swMode == 52
rampStat == 53

modePosition == 0
modeVelPos == 1
modeVelNeg == 2
modeHold == 3

\* ramp-status bits tested by IsStopped and AtVelocity
VZeroBit == 1024
VelReachedBit == 256
PosReachedBit == 512
\* value written to swMode to enable the stall stop
SgStopEnable == 1024

WarmLimit == 500
StopLimit == 10000
WarmTimeoutErr == "over 500 failures trying to get up to speed while homing"
StopTimeoutErr == "over 1000 failures trying to stop at endstop while homing"
Timeouts == {WarmTimeoutErr, StopTimeoutErr}

Callers == 1..NumCallers
Motors == {1, 2}
None == 0
Nil == -1

VARIABLES
    motor,        \* Motor struct of each instance (after makeMotor)
    scope,        \* what the specification explores: callers, calls, poll limits
    mu,           \* globalMu: None or the caller holding it
    smMu,         \* opMgr.mu of each instance: None or the caller holding it
    currentOp,    \* opMgr.currentOp of each instance: None or the owning caller
    opCancelled,  \* the cancel func of the caller's operation was called
    opClosed,     \* the waitCh of the caller's operation is closed
    cancelledAt,  \* where another command's cancel found the caller: "" (not
                  \* cancelled), "waiting" (in a poll loop) or "other"
    proc,         \* the goroutine of each caller (see NewProc)
    raced,        \* a transfer was issued while another caller held globalMu
    calc,         \* a function of the driver applied to drawn arguments (see NewCalc)
    regCall       \* one readReg or writeReg call, step by step (see NewReg)

vars == <<motor, scope, mu, smMu, currentOp, opCancelled, opClosed, cancelledAt,
          proc, raced, calc, regCall>>

\* ------------------------------------------------------------ arithmetic
Abs(x) == IF x < 0 THEN -x ELSE x

\* int32(x / y) for an exact quotient: truncation toward zero
TruncDiv(x, y) == IF x >= 0 THEN x \div y ELSE -((-x) \div y)

Min(x, y) == IF x < y THEN x ELSE y

RECURSIVE ShiftDiv(_, _, _, _)
\* floor((q * d + r) * 2^k / d) for 0 <= r < d, without leaving 32 bits
ShiftDiv(q, r, d, k) ==
    IF k = 0 THEN q
    ELSE ShiftDiv(2 * q + ((2 * r) \div d), (2 * r) % d, d, k - 1)

\* floor(x * 2^k / d)
MulPow2Div(x, k, d) == ShiftDiv(x \div d, x % d, d, k)

\* --------------------------------------------------------- unit converter
\* 2^24 / (RpmDen * 60 * baseClk), reduced by uSteps * 2^3: 2^VelShift / VelDen
VelShift == 21
VelDen == 38671875
\* 2^41 / (60 * baseClk^2), reduced by 2^16: 2^AccShift / (AccDenA * AccDenB)
AccShift == 25
AccDenA == 48828125
AccDenB == 3267

\* rpmToV: rpm and maxRPM in hundredths of an rpm; fClk = baseClk (cal_factor 1)
rpmToV(rpm, maxRPM, stepsPerRev) ==
    LET r == IF rpm > maxRPM THEN maxRPM ELSE rpm
        x == r * (stepsPerRev \div uSteps)
    IN  IF x >= 0 THEN MulPow2Div(x, VelShift, VelDen)
        ELSE -MulPow2Div(-x, VelShift, VelDen)

\* rpmsToA: acc in rpm per second
rpmsToA(acc, stepsPerRev) ==
    LET x == acc * stepsPerRev
    IN  IF x >= 0 THEN MulPow2Div(x, AccShift, AccDenA) \div AccDenB
        ELSE -(MulPow2Div(-x, AccShift, AccDenA) \div AccDenB)

\* ------------------------------------------------------- ramp parameters
RampFields == {"VStart", "VStop", "V1", "A1", "D1", "VMax", "AMax", "DMax"}

\* a rampParameters value with every pointer nil
NoRamp == [f \in RampFields |-> Nil]

\* variant: the default max velocity is the velocity value of maxRPM
initRampParametersVMaxOfMaxRPM(maxRPM, maxAcc, stepsPerRev) ==
    LET rawMaxAcc == rpmsToA(maxAcc, stepsPerRev)
    IN  [VStart |-> 1,
         VStop  |-> 10,
         V1     |-> rpmToV(TruncDiv(maxRPM, 4), maxRPM, stepsPerRev),
         A1     |-> rawMaxAcc,
         D1     |-> rawMaxAcc,
         VMax   |-> rpmToV(maxRPM, maxRPM, stepsPerRev),
         AMax   |-> rawMaxAcc,
         DMax   |-> rawMaxAcc]

initRampParameters(maxRPM, maxAcc, stepsPerRev) ==
    LET rawMaxAcc == rpmsToA(maxAcc, stepsPerRev)
    IN  [VStart |-> 1,
         VStop  |-> 10,
         V1     |-> rpmToV(TruncDiv(maxRPM, 4), maxRPM, stepsPerRev),
         A1     |-> rawMaxAcc,
         D1     |-> rawMaxAcc,
         VMax   |-> rpmToV(0, maxRPM, stepsPerRev),
         AMax   |-> rawMaxAcc,
         DMax   |-> rawMaxAcc]

\* variant: the max velocity is always the one of the override
mergeRampParametersVMaxOfOverride(base, override) ==
    [f \in RampFields |->
        IF override[f] # Nil \/ f = "VMax" THEN override[f] ELSE base[f]]

mergeRampParameters(base, override) ==
    [f \in RampFields |-> IF override[f] # Nil THEN override[f] ELSE base[f]]

\* a value of the ramp_parameters map that toUint32 does not convert (a
\* string, a bool, nil)
NotNumeric == -2

\* parseRampParametersFromExtra on a ramp_parameters map raw (absent keys are
\* Nil): a key whose value toUint32 does not convert is left nil, without error
parseRampParametersFromExtra(raw) ==
    [f \in RampFields |-> IF raw[f] = NotNumeric THEN Nil ELSE raw[f]]

\* the ramp parameters GoTo and SetRPM apply: the configured ones, merged
\* with the ramp_parameters of extra when extra carries them
EffectiveRamp(m, extra) ==
    IF ~extra.has THEN motor[m].rampParams
    ELSE mergeRampParameters(motor[m].rampParams,
                             parseRampParametersFromExtra(extra.rp))

\* the range validate allows for each field that is present
RampRange ==
    [VStart |-> <<0, 2^18 - 1>>, VStop |-> <<1, 2^18 - 1>>, V1 |-> <<0, 2^20 - 1>>,
     A1 |-> <<0, 2^16 - 1>>, D1 |-> <<1, 2^16 - 1>>, VMax |-> <<0, 2^23 - 512>>,
     AMax |-> <<0, 2^16 - 1>>, DMax |-> <<0, 2^16 - 1>>]

InRange(f, val) == val >= RampRange[f][1] /\ val <= RampRange[f][2]

\* rampParameters.validate returns nil (a nil record, NoRamp here, is valid)
validate(rp) == \A f \in RampFields : rp[f] # Nil => InRange(f, rp[f])

\* variant: only an rpm of exactly 0 is refused
CheckSpeedExactZero(rpm) == rpm = 0

\* motor.CheckSpeed returns the zero-rpm error: |rpm| is below 0.1
CheckSpeedZero(rpm) == Abs(rpm) * 10 < RpmDen

\* --------------------------------------------------------------- makeMotor
\* Config values the instances are built from
MaxRPMCfg == 50000
MaxAccCfg == 500
TicksCfg == 200
\* home_rpm of the two instances: unset, and 60 rpm
HomeRPMCfg == <<0, 6000>>

\* home_rpm as makeMotor stores it: default max_rpm / 4, then negated
\* variant: the home rpm is taken as configured, without the sign change
HomeRPMAsConfigured(homeCfg, maxRPM) ==
    IF homeCfg = 0 THEN TruncDiv(maxRPM, 4) ELSE homeCfg

HomeRPMOf(homeCfg, maxRPM) ==
    -1 * (IF homeCfg = 0 THEN TruncDiv(maxRPM, 4) ELSE homeCfg)

\* rampCfg is the ramp_parameters of the Config ([has |-> FALSE] when nil);
\* merged is history: a call merged per-call ramp_parameters on the instance
makeMotor(index, homeCfg, rampCfg) ==
    [index       |-> index,
     stepsPerRev |-> TicksCfg * uSteps,
     homeRPM     |-> HomeRPMOf(homeCfg, MaxRPMCfg),
     maxRPM      |-> MaxRPMCfg,
     powerPct    |-> 0,
     merged      |-> FALSE,
     rampParams  |->
         IF rampCfg.has
         THEN mergeRampParameters(
                  initRampParameters(MaxRPMCfg, MaxAccCfg, TicksCfg * uSteps), rampCfg.rp)
         ELSE initRampParameters(MaxRPMCfg, MaxAccCfg, TicksCfg * uSteps)]

\* ------------------------------------------------------ register protocol
\* variant: the ramp block of channel 2 ends one register early
shiftAddrShortRampBlock(index, addr) ==
    IF index = 2
    THEN CASE addr >= 16 /\ addr <= 17 -> addr + 8
           [] addr >= 32 /\ addr <= 59 -> addr + 32
           [] addr >= 106 /\ addr <= 111 -> addr + 16
           [] OTHER -> addr
    ELSE addr

\* variant: channel 2 adds 0x10 in the ramp block as in the driver block
shiftAddrOneOffset(index, addr) ==
    IF index = 2
    THEN CASE addr >= 16 /\ addr <= 17 -> addr + 8
           [] addr >= 32 /\ addr <= 60 -> addr + 16
           [] addr >= 106 /\ addr <= 111 -> addr + 16
           [] OTHER -> addr
    ELSE addr

shiftAddr(index, addr) ==
    IF index = 2
    THEN CASE addr >= 16 /\ addr <= 17 -> addr + 8
           [] addr >= 32 /\ addr <= 60 -> addr + 32
           [] addr >= 106 /\ addr <= 111 -> addr + 16
           [] OTHER -> addr
    ELSE addr

\* 0xFF & byte(value >> (8 * k)) of an int32 (\div rounds down, as >> does)
Byte(value, k) == (value \div 2^(8 * k)) % 256

\* variant: the value bytes least significant first
ValueBytesLsbFirst(value) ==
    <<Byte(value, 0), Byte(value, 1), Byte(value, 2), Byte(value, 3)>>

\* buf[1..4] of writeReg
ValueBytes(value) ==
    <<Byte(value, 3), Byte(value, 2), Byte(value, 1), Byte(value, 0)>>

\* addr | 0x80
WriteFlag(addr) == IF (addr \div 128) % 2 = 1 THEN addr ELSE addr + 128

\* the 5 bytes writeReg transfers
writeFrame(index, addr, value) ==
    <<WriteFlag(shiftAddr(index, addr))>> \o ValueBytes(value)

\* the 5 bytes readReg transfers, twice
readFrame(index, addr) == <<shiftAddr(index, addr), 0, 0, 0, 0>>

\* the int32 readReg builds from rbuf[1..4] (rbuf[1] is the second element
\* here): the shifts keep 32 bits, so bit 7 of rbuf[1] becomes the sign
int32Of(rbuf) ==
    (IF rbuf[2] >= 128 THEN rbuf[2] - 256 ELSE rbuf[2]) * 2^24
        + rbuf[3] * 2^16 + rbuf[4] * 2^8 + rbuf[5]

\* variant: the value is taken from the reply to the first transfer
ReplyUsedFirst(first, second) == first

\* the reply readReg decodes: the one to its second transfer
ReplyUsed(first, second) == second

W(reg, val) == [reg |-> reg, val |-> val]

\* what writeReg ("w") or readReg ("r") leaves in the log of its call: the
\* register, the value written or read, and how it ended: "ok", "xfer" (a
\* transfer failed) or "open" (OpenHandle failed, nothing was transferred)
Ev(kind, reg, val, st) == [k |-> kind, reg |-> reg, val |-> val, st |-> st]

\* a run of successful ramp-status reads keeps its last read only
AppendLog(l, e) ==
    IF /\ e.k = "r"
       /\ e.reg = rampStat
       /\ Len(l) > 0
       /\ l[Len(l)].k = "r" /\ l[Len(l)].reg = e.reg /\ l[Len(l)].st = "ok"
    THEN [l EXCEPT ![Len(l)] = e]
    ELSE Append(l, e)

\* globalMu.Lock() can return
\* variant: transfers are issued without taking globalMu
LockNotTaken(c) == TRUE

LockFree(c) == mu = None

Bump(n) == IF n < CountCap THEN n + 1 ELSE n

\* ------------------------------------------------- register write batches
applyRampParameters(params) ==
    << W(a1, params.A1), W(aMax, params.AMax), W(d1, params.D1),
       W(dMax, params.DMax), W(vStart, params.VStart), W(vStop, params.VStop),
       W(v1, params.V1) >>

\* variant: reverse is selected for rpm <= 0
doJogZeroReverse(m, rpm) ==
    << W(rampMode, IF rpm <= 0 THEN modeVelNeg ELSE modeVelPos),
       W(vMax, rpmToV(Abs(rpm), motor[m].maxRPM, motor[m].stepsPerRev)) >>

doJog(m, rpm) ==
    << W(rampMode, IF rpm < 0 THEN modeVelNeg ELSE modeVelPos),
       W(vMax, rpmToV(Abs(rpm), motor[m].maxRPM, motor[m].stepsPerRev)) >>

\* variant: the target position is written before the ramp parameters
GoToWritesTargetFirst(m, rpm, pos, extra) ==
    << W(rampMode, modePosition),
       W(xTarget, TruncDiv(pos * motor[m].stepsPerRev, RevDen)) >>
    \o applyRampParameters(EffectiveRamp(m, extra))
    \o << W(vMax, rpmToV(Abs(rpm), motor[m].maxRPM, motor[m].stepsPerRev)) >>

\* variant: max-velocity is taken from the merged ramp parameters
GoToWritesRampVMax(m, rpm, pos, extra) ==
    << W(rampMode, modePosition) >>
    \o applyRampParameters(EffectiveRamp(m, extra))
    \o << W(vMax, EffectiveRamp(m, extra).VMax),
          W(xTarget, TruncDiv(pos * motor[m].stepsPerRev, RevDen)) >>

GoToWrites(m, rpm, pos, extra) ==
    << W(rampMode, modePosition) >>
    \o applyRampParameters(EffectiveRamp(m, extra))
    \o << W(vMax, rpmToV(Abs(rpm), motor[m].maxRPM, motor[m].stepsPerRev)),
          W(xTarget, TruncDiv(pos * motor[m].stepsPerRev, RevDen)) >>

\* variant: max-velocity is written before the ramp parameters
SetRPMWritesVMaxFirst(m, rpm, extra) ==
    << W(rampMode, IF rpm < 0 THEN modeVelNeg ELSE modeVelPos),
       W(vMax, rpmToV(Abs(rpm), motor[m].maxRPM, motor[m].stepsPerRev)) >>
    \o applyRampParameters(EffectiveRamp(m, extra))

SetRPMWrites(m, rpm, extra) ==
    << W(rampMode, IF rpm < 0 THEN modeVelNeg ELSE modeVelPos) >>
    \o applyRampParameters(EffectiveRamp(m, extra))
    \o << W(vMax, rpmToV(Abs(rpm), motor[m].maxRPM, motor[m].stepsPerRev)) >>

ResetZeroWrites(m, offset) ==
    << W(rampMode, modeHold) >>
    \o applyRampParameters(motor[m].rampParams)
    \o << W(xTarget, TruncDiv(-1 * offset * motor[m].stepsPerRev, RevDen)),
          W(xActual, TruncDiv(-1 * offset * motor[m].stepsPerRev, RevDen)) >>

\* the deferred cleanup of goTillStop
CleanupWrites(m) == << W(swMode, 0) >> \o doJog(m, 0)

\* values makeMotor computes from a Config without sg_thresh, run_current,
\* hold_current and hold_delay
ChopConfVal == 65731
HoldDelayDflt == 6
RunCurrentDflt == 15
HoldCurrentDflt == 8

MinInt32 == -2147483647 - 1
MaxInt32 == 2147483647

\* x-- on an int32
Dec32(x) == IF x = MinInt32 THEN MaxInt32 ELSE x - 1

\* run_current or hold_current of the Config as makeMotor hands it to the chip
CurrentOf(cfg, dflt) ==
    LET x == IF cfg = 0 THEN dflt ELSE Dec32(cfg)
    IN  IF x > 31 THEN 31 ELSE IF x < 0 THEN 0 ELSE x

\* hold_delay of the Config as makeMotor hands it to the chip
HoldDelayOf(cfg) ==
    LET x == IF cfg = 0 THEN HoldDelayDflt ELSE IF cfg < 0 THEN 0 ELSE cfg
    IN  IF x > 15 THEN 15 ELSE x

\* iCfg := c.HoldDelay<<16 | c.RunCurrent<<8 | c.HoldCurrent, on the clamped
\* values (each below 2^8, so the fields do not overlap)
iCfg(run, hold, delay) ==
    HoldDelayOf(delay) * 2^16 + CurrentOf(run, RunCurrentDflt) * 2^8
        + CurrentOf(hold, HoldCurrentDflt)

\* sg_thresh of the Config as makeMotor encodes it: clamped to -64..63, a
\* negative value replaced by 64 + |value|
SGThreshOf(sg) ==
    LET x == IF sg > 63 THEN 63 ELSE IF sg < -64 THEN -64 ELSE sg
    IN  IF x < 0 THEN 64 + Abs(x) ELSE x

\* coolConfig := c.SGThresh << 16
coolConfig(sg) == SGThreshOf(sg) * 65536

\* the setup writes of makeMotor for the Motor mot it has built
MakeMotorWrites(mot) ==
    << W(chopConf, ChopConfVal),
       W(iHoldIRun, iCfg(0, 0, 0)),
       W(coolConf, 0) >>
    \o applyRampParameters(mot.rampParams)
    \o << W(vCoolThres, rpmToV(TruncDiv(mot.maxRPM, 20), mot.maxRPM, mot.stepsPerRev)),
          W(vMax, mot.rampParams.VMax),
          W(rampMode, modeVelPos),
          W(xActual, 0) >>

\* variant: the direction is taken from the sign of rotations alone
GoForTargetByRotations(mot, rpm, rotations, raw) ==
    TruncDiv(raw * RevDen, mot.stepsPerRev) + rotations

\* GoFor: the position GoTo is called with, in RevDen-ths of a revolution,
\* from the xActual value raw that Position read
GoForTarget(mot, rpm, rotations, raw) ==
    LET curPos == TruncDiv(raw * RevDen, mot.stepsPerRev)
        d == IF (rotations < 0) # (rpm < 0) THEN -1 ELSE 1
    IN  curPos + Abs(rotations) * d

\* variant: only the command name is checked
CmdErrorNameOnly(cmd) ==
    CASE ~cmd.has -> "missing command value"
      [] cmd.name \notin {"home", "jog", "get_v_actual"} -> "no such command"
      [] OTHER -> ""

\* DoCommand: the request error of a command map ("" when it has none)
CmdError(cmd) ==
    CASE ~cmd.has -> "missing command value"
      [] cmd.name \notin {"home", "jog", "get_v_actual"} -> "no such command"
      [] cmd.name = "jog" /\ cmd.arg = "none" -> "need rpm value for jog"
      [] cmd.name = "jog" /\ cmd.arg # "float" -> "rpm value must be floating point"
      [] OTHER -> ""

RequestErrors ==
    {"missing command value", "no such command", "need rpm value for jog",
     "rpm value must be floating point"}

\* ------------------------------------------------------------ status bits
HasBit(stat, bit) == (stat \div bit) % 2 = 1

\* variant: the position-reached bit is taken for the stopped bit
IsStoppedByPosReached(stat) == HasBit(stat, PosReachedBit)

IsStoppedBit(stat) == HasBit(stat, VZeroBit)

\* variant: AtVelocity tests the standstill bit
AtVelocityByVZero(stat) == HasBit(stat, VZeroBit)

AtVelocityBit(stat) == HasBit(stat, VelReachedBit)

\* variant: IsMoving without the negation
IsMovingNotNegated(stat) == IsStoppedBit(stat)

\* IsMoving, and the on of IsPowered
IsMoving(stat) == ~IsStoppedBit(stat)

\* ramp-status values the chip may answer with
StatValues ==
    {0, VelReachedBit, PosReachedBit, VZeroBit, VelReachedBit + PosReachedBit + VZeroBit}

\* xActual values the chip may answer Position with (whole tenths of a
\* revolution, for which the float64 arithmetic of GoFor is exact)
PosValues == {-15360, 0, 163840}

\* ------------------------------------------------------------------- calls
\* the map handed to DoCommand: has is "the command key is present", arg says
\* whether the rpm key is absent ("none"), a float64 ("float") or of another
\* type ("other"); the value of a float64 rpm is the rpm of the call
NoCmd == [has |-> FALSE, name |-> "", arg |-> "none"]

Call(kind, m, rpm, pct, pos, extra) ==
    [kind |-> kind, m |-> m, rpm |-> rpm, pct |-> pct, pos |-> pos, extra |-> extra,
     cmd |-> NoCmd]

DoCommand(m, name, arg, rpm) ==
    [Call("DoCommand", m, rpm, 0, 0, [has |-> FALSE, rp |-> NoRamp]) EXCEPT
        !.cmd = [has |-> name # "", name |-> name, arg |-> arg]]

\* extra without ramp_parameters (or a nil extra)
NoExtra == [has |-> FALSE, rp |-> NoRamp]

NoCall == Call("", 1, 0, 0, 0, NoExtra)

\* ramp_parameters of the SetRPM and GoTo tests
TestOverride ==
    [has |-> TRUE,
     rp  |-> [VStart |-> 0, VStop |-> 10, V1 |-> 1256, A1 |-> 3000, D1 |-> 2500,
              VMax |-> Nil, AMax |-> 3500, DMax |-> 3600]]

\* ramp_parameters that set v_max only
VMaxOverride ==
    [has |-> TRUE,
     rp  |-> [VStart |-> Nil, VStop |-> Nil, V1 |-> Nil, A1 |-> Nil, D1 |-> Nil,
              VMax |-> 100000, AMax |-> Nil, DMax |-> Nil]]

\* ramp_parameters with v_stop below and a1 above what validate allows
BadOverride ==
    [has |-> TRUE,
     rp  |-> [VStart |-> Nil, VStop |-> 0, V1 |-> Nil, A1 |-> 70000, D1 |-> Nil,
              VMax |-> Nil, AMax |-> Nil, DMax |-> Nil]]

\* ramp_parameters with a number for v1 and a string for a1
NonNumericOverride ==
    [has |-> TRUE,
     rp  |-> [VStart |-> Nil, VStop |-> Nil, V1 |-> 1256, A1 |-> NotNumeric, D1 |-> Nil,
              VMax |-> Nil, AMax |-> Nil, DMax |-> Nil]]

\* construction from the Configs that Config.Validate accepts, GoFor,
\* DoCommand, and GoTo / SetRPM with per-call ramp_parameters
ApiCalls ==
    {Call("makeMotor", 1, 0, 0, 0, x) :
        x \in {y \in {NoExtra, TestOverride, VMaxOverride, BadOverride} : validate(y.rp)}}
    \cup {Call("makeMotor", 2, 0, 0, 0, NoExtra)}
    \cup {Call("GoFor", 1, rpm, 0, rot, NoExtra) :
             rpm \in {-5000, -5, 0, 5, 5000}, rot \in {-32, 32}}
    \cup {Call("GoFor", 2, 5000, 0, 32, TestOverride)}
    \cup { DoCommand(1, "", "none", 0),
           DoCommand(1, "spin", "float", 5000),
           DoCommand(1, "jog", "none", 0),
           DoCommand(1, "jog", "other", 0),
           DoCommand(1, "jog", "float", -12500) }
    \cup {Call("SetRPM", 1, 25000, 0, 0, x) :
             x \in {NoExtra, TestOverride, BadOverride, NonNumericOverride}}
    \cup {Call("SetRPM", 1, -60000, 0, 0, VMaxOverride)}
    \cup {Call("GoTo", 1, 5000, 0, 32, x) :
             x \in {NoExtra, VMaxOverride, BadOverride, NonNumericOverride}}

SeqCalls ==
    {Call("SetPower", 1, 0, pct, 0, NoExtra) : pct \in {-25, 50}}
    \cup {Call("Jog", 1, rpm, 0, 0, NoExtra) : rpm \in {-12500, 0, 60000}}
    \cup {Call("Stop", 1, 0, 0, 0, NoExtra)}
    \cup {Call("IsPowered", 1, 0, 0, 0, NoExtra)}
    \cup {Call("SetRPM", 1, rpm, 0, 0, x) :
             rpm \in {-12500, 25000}, x \in {NoExtra, TestOverride}}
    \cup {Call("GoTo", 1, 5000, 0, pos, x) :
             pos \in {-32, 0, 32}, x \in {NoExtra, TestOverride}}
    \cup {Call("home", 1, 0, 0, 0, NoExtra)}
    \cup {Call("ResetZeroPosition", 1, 0, 0, pos, NoExtra) : pos \in {0, 31}}
    \cup { Call("Jog", 2, -12500, 0, 0, NoExtra),
           Call("GoTo", 2, 5000, 0, 32, NoExtra),
           Call("home", 2, 0, 0, 0, NoExtra),
           Call("ResetZeroPosition", 2, 0, 0, 31, NoExtra) }

ConcCalls ==
    { Call("Jog", 1, 5000, 0, 0, NoExtra),
      Call("SetRPM", 1, -12500, 0, 0, NoExtra),
      Call("GoTo", 1, 5000, 0, 32, NoExtra),
      Call("home", 1, 0, 0, 0, NoExtra),
      Call("ResetZeroPosition", 1, 0, 0, 0, NoExtra),
      Call("GoFor", 1, 0, 0, 32, NoExtra),
      Call("GoFor", 1, 5, 0, 32, NoExtra),
      Call("Jog", 2, 5000, 0, 0, NoExtra),
      Call("GoTo", 2, 5000, 0, 32, NoExtra) }

\* the goroutine of a caller
NewProc(call, entry) ==
    [pc          |-> entry,
     op          |-> call,
     ctx         |-> FALSE,   \* the context of the call is done
     queue       |-> << >>,   \* writes of the current multierr.Combine still to issue
     err         |-> FALSE,   \* a write of the current batch returned an error
     rd          |-> 0,       \* 1 between the two transfers of readReg
     faults      |-> 0,       \* transfers and OpenHandle calls that failed in the call
     fails       |-> 0,       \* the fails counter of goTillStop
     pending     |-> "",      \* the value to return once the deferred calls ran
     result      |-> "",      \* what the call returned ("" while it runs)
     log         |-> << >>,   \* bus operations of the call
     polls       |-> 0,       \* status reads completed in the current poll loop
     lastStat    |-> Nil,     \* the status value just read (Nil once the caller
                              \* slept or wrote again)
     target      |-> 0,       \* GoFor: the position it calls GoTo with;
                              \* IsPowered: the power percentage it returned
     sinceCancel |-> 0]       \* status reads completed in the current poll loop
                              \* while the context of the loop was done

Entry(kind) ==
    CASE kind = "GoTo" -> "new"
      [] kind = "ResetZeroPosition" -> "rz_poll"
      [] kind = "GoFor" -> "pos_poll"
      [] kind = "IsPowered" -> "pw_poll"
      [] kind = "makeMotor" -> "mk_w"
      [] OTHER -> "cancel"

WritePcs == {"jog_w", "rpm_w", "hjog_w", "goto_w", "sw_w", "clean_w", "rz_w", "mk_w"}
PollPcs == {"wait_poll", "warm_poll", "stop_poll", "home_poll", "rz_poll", "pos_poll",
            "pw_poll"}
SleepPcs == {"wait_sleep", "warm_sleep", "stop_sleep"}
\* the poll loops that run under the context of opMgr.New
OpCtxPcs == {"wait_poll", "wait_sleep", "warm_poll", "warm_sleep",
             "stop_poll", "stop_sleep"}

\* ------------------------------------------------------------ continuations
Ret(p, res) == [p EXCEPT !.pc = "idle", !.result = res, !.queue = << >>]

\* the call up to its first bus or operation-manager step: GoFor and DoCommand
\* may return at once; makeMotor (for a Config that Config.Validate accepted)
\* builds the Motor and starts its setup writes
Enter(call) ==
    CASE call.kind = "GoFor" /\ CheckSpeedZero(call.rpm) ->
            Ret(NewProc(call, "idle"), "zero_rpm")
      [] call.kind = "DoCommand" /\ CmdError(call.cmd) # "" ->
            Ret(NewProc(call, "idle"), CmdError(call.cmd))
      [] call.kind = "makeMotor" ->
            [NewProc(call, "mk_w") EXCEPT
                !.queue = MakeMotorWrites(makeMotor(call.m, HomeRPMCfg[call.m], call.extra))]
      [] OTHER -> NewProc(call, Entry(call.kind))

\* return res from goTillStop: the deferred cleanup runs first
\* (fails is dead from here on; polls is kept for a timeout only)
ToCleanup(p, res) ==
    [p EXCEPT !.pending = res, !.pc = "clean_w", !.err = FALSE,
              !.queue = CleanupWrites(p.op.m), !.fails = 0,
              !.polls = IF res \in Timeouts THEN @ ELSE 0]

\* return res from a function that called opMgr.New: done() runs first
ToDone(p, res) == [p EXCEPT !.pending = res, !.pc = "done1"]

\* the context handed to WaitForSuccess and to the loops of goTillStop is done
\* variant: the wait looks at the context of the call, not of the operation
CtxDoneOfCallOnly(c) == proc[c].ctx

CtxDone(c) == proc[c].ctx \/ opCancelled[c]

\* variants: the limit tests with > in place of >=
WarmExhaustedLate(n) == n > scope.warm

StopExhaustedLate(n) == n > scope.stop

\* the fails >= limit tests of goTillStop
WarmExhausted(n) == n >= scope.warm

StopExhausted(n) == n >= scope.stop

\* the last write of a multierr.Combine batch returned
\* variant: an error of the cleanup writes becomes the result of goTillStop
AfterBatchCleanupReturned(p) ==
    CASE p.pc \in {"jog_w", "rpm_w", "rz_w", "mk_w"} ->
            Ret(p, IF p.err THEN "xfer" ELSE "ok")
      [] p.pc = "hjog_w" ->
            IF p.err THEN Ret(p, "xfer") ELSE [p EXCEPT !.pc = "new"]
      [] p.pc = "goto_w" ->
            IF p.err THEN ToDone(p, "xfer") ELSE [p EXCEPT !.pc = "wait_poll"]
      [] p.pc = "sw_w" ->
            IF p.err THEN ToCleanup(p, "xfer")
            ELSE [p EXCEPT !.pc = "stop_sleep"]
      [] p.pc = "clean_w" ->
            [p EXCEPT !.pc = "done1", !.err = FALSE,
                      !.pending = IF p.err THEN "xfer" ELSE @]

AfterBatch(p) ==
    CASE p.pc \in {"jog_w", "rpm_w", "rz_w", "mk_w"} ->
            Ret(p, IF p.err THEN "xfer" ELSE "ok")
      [] p.pc = "hjog_w" ->
            IF p.err THEN Ret(p, "xfer") ELSE [p EXCEPT !.pc = "new"]
      [] p.pc = "goto_w" ->
            IF p.err THEN ToDone(p, "xfer") ELSE [p EXCEPT !.pc = "wait_poll"]
      [] p.pc = "sw_w" ->
            IF p.err THEN ToCleanup(p, "xfer")
            ELSE [p EXCEPT !.pc = "stop_sleep"]
      [] p.pc = "clean_w" -> [p EXCEPT !.pc = "done1", !.err = FALSE]

\* readReg returned an error
ReadFailed(p) ==
    CASE p.pc = "wait_poll" -> ToDone(p, "xfer")
      [] p.pc \in {"warm_poll", "stop_poll"} -> ToCleanup(p, "xfer")
      [] p.pc \in {"home_poll", "rz_poll", "pos_poll"} -> Ret(p, "xfer")
      [] p.pc = "pw_poll" ->
            [Ret(p, "xfer") EXCEPT !.target = motor[p.op.m].powerPct]

\* readReg(rampStat) returned stat
ReadOk(p, stat) ==
    CASE p.pc = "wait_poll" ->
            IF IsStoppedBit(stat) THEN ToDone(p, "ok")
            ELSE [p EXCEPT !.pc = "wait_sleep"]
      [] p.pc = "warm_poll" ->
            IF AtVelocityBit(stat)
            THEN [p EXCEPT !.pc = "sw_w", !.err = FALSE, !.fails = 0, !.polls = 0,
                           !.sinceCancel = 0,
                           !.queue = << W(swMode, SgStopEnable) >>]
            ELSE IF WarmExhausted(p.fails) THEN ToCleanup(p, WarmTimeoutErr)
            ELSE [p EXCEPT !.fails = @ + 1, !.pc = "warm_sleep"]
      [] p.pc = "stop_poll" ->
            IF IsStoppedBit(stat) THEN ToCleanup(p, "ok")
            ELSE IF StopExhausted(p.fails) THEN ToCleanup(p, StopTimeoutErr)
            ELSE [p EXCEPT !.fails = @ + 1, !.pc = "stop_sleep"]
      [] p.pc = "home_poll" ->
            IF IsStoppedBit(stat) THEN [p EXCEPT !.pc = "rz_poll", !.sinceCancel = 0]
            ELSE p
      [] p.pc = "pos_poll" ->
            [p EXCEPT !.pc = "new", !.lastStat = Nil,
                      !.target = GoForTarget(motor[p.op.m], p.op.rpm, p.op.pos, stat)]
      [] p.pc = "pw_poll" ->
            [Ret(p, IF IsMoving(stat) THEN "on" ELSE "off") EXCEPT
                !.target = motor[p.op.m].powerPct]
      [] p.pc = "rz_poll" ->
            IF IsMoving(stat) THEN Ret(p, "moving")
            ELSE [p EXCEPT !.pc = "rz_w", !.err = FALSE,
                           !.queue = ResetZeroWrites(p.op.m,
                               IF p.op.kind = "home" THEN 0 ELSE p.op.pos)]

\* CancelRunning or New went through: the call goes on
Proceed(p) ==
    LET m == p.op.m IN
    CASE p.pc = "new" /\ p.op.kind = "GoTo" ->
            [p EXCEPT !.pc = "goto_w",
                      !.queue = GoToWrites(m, p.op.rpm, p.op.pos, p.op.extra)]
      [] p.pc = "new" /\ p.op.kind = "GoFor" ->
            [p EXCEPT !.pc = "goto_w",
                      !.queue = GoToWrites(m, Abs(p.op.rpm), p.target, p.op.extra)]
      [] p.pc = "new" /\ p.op.kind = "home" ->
            [p EXCEPT !.pc = "warm_sleep", !.fails = 0, !.polls = 0]
      [] p.pc = "cancel" /\ p.op.kind = "Jog" ->
            [p EXCEPT !.pc = "jog_w", !.queue = doJog(m, p.op.rpm)]
      [] p.pc = "cancel" /\ p.op.kind = "DoCommand" ->
            [p EXCEPT !.pc = "jog_w", !.queue = doJog(m, p.op.rpm)]
      [] p.pc = "cancel" /\ p.op.kind = "Stop" ->
            [p EXCEPT !.pc = "jog_w", !.queue = doJog(m, 0)]
      [] p.pc = "cancel" /\ p.op.kind = "SetPower" ->
            [p EXCEPT !.pc = "jog_w",
                      !.queue = doJog(m, TruncDiv(p.op.pct * motor[m].maxRPM, 100))]
      [] p.pc = "cancel" /\ p.op.kind = "SetRPM" ->
            [p EXCEPT !.pc = "rpm_w",
                      !.queue = SetRPMWrites(m, p.op.rpm, p.op.extra)]
      [] p.pc = "cancel" /\ p.op.kind = "home" ->
            [p EXCEPT !.pc = "hjog_w", !.queue = doJog(m, motor[m].homeRPM)]

\* ----------------------------------------------------------------- actions
\* the bus may fail once more in this call
MayFail(p) == p.faults < scope.faults

Fault(p) == [p EXCEPT !.faults = @ + 1]

\* handle.Xfer by caller c: the bus is used; globalMu should be free or c's
Xfer(c) == raced \/ mu \notin {None, c}

\* a caller invokes a method of an instance
Start(c) ==
    /\ c \in scope.callers
    /\ proc[c].pc = "idle"
    /\ \E call \in scope.calls :
          proc' = [proc EXCEPT ![c] = Enter(call)]
    /\ cancelledAt' = [cancelledAt EXCEPT ![c] = ""]
    /\ UNCHANGED <<calc, regCall, motor, scope, mu, smMu, currentOp, opCancelled, opClosed, raced>>

\* the context of a running call is cancelled or its deadline passes.  Only the
\* poll loops look at the context (the bus ignores it), so a cancellation that
\* arrives before a loop is the same as one that arrives at its first step.
CancelCtx(c) ==
    /\ proc[c].pc \in PollPcs \cup SleepPcs
    /\ \/ proc[c].op.kind \in {"GoTo", "home"}
       \/ proc[c].op.kind = "GoFor" /\ proc[c].pc \in OpCtxPcs
    /\ ~proc[c].ctx
    /\ proc' = [proc EXCEPT ![c].ctx = TRUE]
    /\ UNCHANGED <<calc, regCall, motor, scope, mu, smMu, currentOp, opCancelled, opClosed,
                   cancelledAt, raced>>

\* variant: Stop clears the stored power
StorePowerStopClears(p) ==
    IF p.op.kind \in {"SetPower", "Stop"} /\ p.pc \in {"cancel", "cancelWait"}
    THEN [motor EXCEPT ![p.op.m].powerPct = p.op.pct]
    ELSE motor

\* SetPower stores powerPct once CancelRunning returned
StorePower(p) ==
    IF p.op.kind = "SetPower" /\ p.pc \in {"cancel", "cancelWait"}
    THEN [motor EXCEPT ![p.op.m].powerPct = p.op.pct]
    ELSE motor

\* variant: the merged parameters are stored back into the Motor
BaseOverwritten(m, extra) == EffectiveRamp(m, extra)

\* GoTo and SetRPM merge the ramp_parameters of extra into a copy of
\* m.rampParams: the rampParams of the Motor after the merge
BaseAfterMerge(m, extra) == motor[m].rampParams

\* the Motor structs once the call went past CancelRunning / New
MotorAfter(p) ==
    LET m == p.op.m
        mot == StorePower(p)
    IN  IF p.op.kind \in {"GoTo", "SetRPM", "GoFor"} /\ p.op.extra.has
        THEN [mot EXCEPT ![m].rampParams = BaseAfterMerge(m, p.op.extra),
                         ![m].merged = TRUE]
        ELSE mot

\* opMgr.CancelRunning / opMgr.New with no operation to cancel
BeginNoCancel(c) ==
    LET p == proc[c]
        m == p.op.m
    IN  /\ p.pc \in {"cancel", "new"}
        /\ smMu[m] = None
        /\ currentOp[m] = None
        /\ proc' = [proc EXCEPT ![c] = Proceed(p)]
        /\ motor' = MotorAfter(p)
        /\ IF p.pc = "new"
           THEN /\ currentOp' = [currentOp EXCEPT ![m] = c]
                /\ opCancelled' = [opCancelled EXCEPT ![c] = FALSE]
                /\ opClosed' = [opClosed EXCEPT ![c] = FALSE]
           ELSE UNCHANGED <<currentOp, opCancelled, opClosed>>
        /\ UNCHANGED <<calc, regCall, scope, mu, smMu, cancelledAt, raced>>

\* cancelInLock: cancel the current operation of the instance, then wait for it
BeginCancel(c) ==
    LET p == proc[c]
        m == p.op.m
        cur == currentOp[m]
    IN  /\ p.pc \in {"cancel", "new"}
        /\ smMu[m] = None
        /\ cur # None
        /\ smMu' = [smMu EXCEPT ![m] = c]
        /\ opCancelled' = [opCancelled EXCEPT ![cur] = TRUE]
        /\ cancelledAt' = [cancelledAt EXCEPT ![cur] =
                              IF @ # "" THEN @
                              ELSE IF proc[cur].pc \in OpCtxPcs THEN "waiting"
                              ELSE "other"]
        /\ proc' = [proc EXCEPT ![c].pc = IF p.pc = "new" THEN "newWait"
                                          ELSE "cancelWait"]
        /\ UNCHANGED <<calc, regCall, motor, scope, mu, currentOp, opClosed, raced>>

\* variant: cancelInLock returns without waiting for the cancelled operation
EndCancelNoWait(c) ==
    LET p == proc[c]
        m == p.op.m
        q == [p EXCEPT !.pc = IF p.pc = "newWait" THEN "new" ELSE "cancel"]
    IN  /\ p.pc \in {"cancelWait", "newWait"}
        /\ smMu[m] = c
        /\ smMu' = [smMu EXCEPT ![m] = None]
        /\ proc' = [proc EXCEPT ![c] = Proceed(q)]
        /\ motor' = MotorAfter(p)
        /\ IF p.pc = "newWait"
           THEN /\ currentOp' = [currentOp EXCEPT ![m] = c]
                /\ opCancelled' = [opCancelled EXCEPT ![c] = FALSE]
                /\ opClosed' = [opClosed EXCEPT ![c] = FALSE]
           ELSE /\ currentOp' = [currentOp EXCEPT ![m] = None]
                /\ UNCHANGED <<opCancelled, opClosed>>
        /\ UNCHANGED <<calc, regCall, scope, mu, cancelledAt, raced>>

\* the cancelled operation called done(): cancelInLock returns
EndCancel(c) ==
    LET p == proc[c]
        m == p.op.m
        q == [p EXCEPT !.pc = IF p.pc = "newWait" THEN "new" ELSE "cancel"]
    IN  /\ p.pc \in {"cancelWait", "newWait"}
        /\ smMu[m] = c
        /\ opClosed[currentOp[m]]
        /\ smMu' = [smMu EXCEPT ![m] = None]
        /\ proc' = [proc EXCEPT ![c] = Proceed(q)]
        /\ motor' = MotorAfter(p)
        /\ IF p.pc = "newWait"
           THEN /\ currentOp' = [currentOp EXCEPT ![m] = c]
                /\ opCancelled' = [opCancelled EXCEPT ![c] = FALSE]
                /\ opClosed' = [opClosed EXCEPT ![c] = FALSE]
           ELSE /\ currentOp' = [currentOp EXCEPT ![m] = None]
                /\ UNCHANGED <<opCancelled, opClosed>>
        /\ UNCHANGED <<calc, regCall, scope, mu, cancelledAt, raced>>

\* writeReg: one call of a multierr.Combine batch
WriteStep(c) ==
    LET p == proc[c]
        m == p.op.m
        w == Head(p.queue)
        After(q) == IF q.queue = << >> THEN AfterBatch(q) ELSE q
    IN  /\ p.pc \in WritePcs
        /\ p.queue # << >>
        /\ \/ \* bus.OpenHandle fails: no transfer
              /\ MayFail(p)
              /\ proc' = [proc EXCEPT ![c] =
                             After(Fault([p EXCEPT !.queue = Tail(@), !.err = TRUE,
                                                   !.lastStat = Nil,
                                                   !.log = AppendLog(@, Ev("w", w.reg, w.val, "open"))]))]
              /\ UNCHANGED raced
           \/ /\ LockFree(c)
              /\ \E ok \in {TRUE} \cup {FALSE : x \in {1} \cap {IF MayFail(p) THEN 1 ELSE 0}} :
                    proc' = [proc EXCEPT ![c] =
                                After([p EXCEPT !.queue = Tail(@),
                                                !.err = @ \/ ~ok,
                                                !.lastStat = Nil,
                                                !.faults = IF ok THEN @ ELSE @ + 1,
                                                !.log = AppendLog(@,
                                                    Ev("w", w.reg, w.val, IF ok THEN "ok" ELSE "xfer"))])]
              /\ raced' = Xfer(c)
        /\ UNCHANGED <<calc, regCall, motor, scope, mu, smMu, currentOp, opCancelled, opClosed,
                       cancelledAt>>

\* the register a poll reads, and the values the chip may answer with
PollReg(p) == IF p.pc = "pos_poll" THEN xActual ELSE rampStat

PollVals(p) == IF p.pc = "pos_poll" THEN PosValues ELSE scope.stats

\* readReg: OpenHandle, globalMu.Lock, first transfer
PollA(c) ==
    LET p == proc[c]
        m == p.op.m
    IN  /\ p.pc \in PollPcs
        /\ p.rd = 0
        /\ \/ /\ MayFail(p)
              /\ proc' = [proc EXCEPT ![c] =
                             ReadFailed(Fault([p EXCEPT !.log =
                                 AppendLog(@, Ev("r", PollReg(p), 0, "open"))]))]
              /\ UNCHANGED <<mu, raced>>
           \/ /\ LockFree(c)
              /\ raced' = Xfer(c)
              /\ \/ /\ mu' = c
                    /\ proc' = [proc EXCEPT ![c].rd = 1]
                 \/ /\ MayFail(p)
                    /\ proc' = [proc EXCEPT ![c] =
                                   ReadFailed(Fault([p EXCEPT !.log =
                                       AppendLog(@, Ev("r", PollReg(p), 0, "xfer"))]))]
                    /\ UNCHANGED mu
        /\ UNCHANGED <<calc, regCall, motor, scope, smMu, currentOp, opCancelled, opClosed,
                       cancelledAt>>

\* the context of the function the caller polls in is done
LoopCtxDone(c) ==
    IF proc[c].pc \in OpCtxPcs THEN proc[c].ctx \/ opCancelled[c] ELSE proc[c].ctx

UnlockSkipped(c) == mu

\* the deferred globalMu.Unlock of readReg
Unlock(c) == IF mu = c THEN None ELSE mu

\* readReg: second transfer, globalMu.Unlock, and the caller's test
PollB(c) ==
    LET p == proc[c]
        m == p.op.m
    IN  /\ p.pc \in PollPcs
        /\ p.rd = 1
        /\ mu' = Unlock(c)
        /\ raced' = Xfer(c)
        /\ \/ /\ MayFail(p)
              /\ proc' = [proc EXCEPT ![c] =
                             ReadFailed(Fault([p EXCEPT !.rd = 0, !.log =
                                 AppendLog(@, Ev("r", PollReg(p), 0, "xfer"))]))]
           \/ \E stat \in PollVals(p) :
                 proc' = [proc EXCEPT ![c] =
                             ReadOk([p EXCEPT !.rd = 0,
                                              !.lastStat = stat,
                                              !.polls = IF p.pc \in {"warm_poll", "stop_poll"}
                                                        THEN @ + 1 ELSE @,
                                              !.sinceCancel =
                                                  IF LoopCtxDone(c) THEN Bump(@) ELSE @,
                                              !.log = AppendLog(@, Ev("r", PollReg(p), stat, "ok"))],
                                    stat)]
        /\ UNCHANGED <<calc, regCall, motor, scope, smMu, currentOp, opCancelled, opClosed,
                       cancelledAt>>

\* utils.SelectContextOrWait(ctx, 10ms)
Sleep(c) ==
    LET p == [proc[c] EXCEPT !.lastStat = Nil]
    IN  /\ p.pc \in SleepPcs
        /\ proc' = [proc EXCEPT ![c] =
                       IF CtxDone(c)
                       THEN IF p.pc = "wait_sleep" THEN ToDone(p, "cancel")
                            ELSE ToCleanup(p, "cancel")
                       ELSE [p EXCEPT !.pc =
                                CASE p.pc = "wait_sleep" -> "wait_poll"
                                  [] p.pc = "warm_sleep" -> "warm_poll"
                                  [] p.pc = "stop_sleep" -> "stop_poll"]]
        /\ UNCHANGED <<calc, regCall, motor, scope, mu, smMu, currentOp, opCancelled, opClosed,
                       cancelledAt, raced>>

\* done(): close the wait channel of the operation
Done1(c) ==
    /\ proc[c].pc = "done1"
    /\ opClosed' = [opClosed EXCEPT ![c] = TRUE]
    /\ proc' = [proc EXCEPT ![c].pc = "done2"]
    /\ UNCHANGED <<calc, regCall, motor, scope, mu, smMu, currentOp, opCancelled, cancelledAt,
                   raced>>

\* home goes on to its wait loop when goTillStop returned nil
HomeGoesOn(res) == res = "ok"

\* done(): unregister the operation; then the function returns
Done2(c) ==
    LET p == proc[c]
        m == p.op.m
    IN  /\ p.pc = "done2"
        /\ smMu[m] = None
        /\ currentOp' = [currentOp EXCEPT ![m] = IF @ = c THEN None ELSE @]
        /\ proc' = [proc EXCEPT ![c] =
                       IF p.op.kind = "home" /\ HomeGoesOn(p.pending)
                       THEN [p EXCEPT !.pc = "home_poll", !.sinceCancel = 0]
                       ELSE Ret(p, p.pending)]
        /\ UNCHANGED <<calc, regCall, motor, scope, mu, smMu, opCancelled, opClosed, cancelledAt,
                       raced>>

\* -------------------------------------------- functions on drawn arguments
\* fn applied to args: n counts the applications, out is the last result
NewCalc(fn, args) == [fn |-> fn, args |-> args, n |-> 0, out |-> Nil]

NoCalc == NewCalc("", Nil)

Main == <<motor, scope, mu, smMu, currentOp, opCancelled, opClosed, cancelledAt,
          proc, raced>>

ApplyShiftAddr ==
    /\ calc.fn = "shiftAddr" /\ calc.n = 0
    /\ calc' = [calc EXCEPT !.n = 1, !.out = shiftAddr(calc.args.index, calc.args.addr)]
    /\ UNCHANGED <<Main, regCall>>

\* merges the override on the base, then once more on the result
ApplyMerge ==
    /\ calc.fn = "mergeRampParameters" /\ calc.n < 2
    /\ calc' = [calc EXCEPT
                  !.n = @ + 1,
                  !.out = mergeRampParameters(
                              IF calc.n = 0 THEN calc.args.base ELSE calc.out,
                              calc.args.override)]
    /\ UNCHANGED <<Main, regCall>>

ApplyInitRamp ==
    /\ calc.fn = "initRampParameters" /\ calc.n = 0
    /\ calc' = [calc EXCEPT
                  !.n = 1,
                  !.out = initRampParameters(calc.args.maxRPM, calc.args.maxAcc,
                                             calc.args.ticks * uSteps)]
    /\ UNCHANGED <<Main, regCall>>

ApplyICfg ==
    /\ calc.fn = "iCfg" /\ calc.n = 0
    /\ calc' = [calc EXCEPT
                  !.n = 1,
                  !.out = iCfg(calc.args.run, calc.args.hold, calc.args.delay)]
    /\ UNCHANGED <<Main, regCall>>

ApplyCoolConfig ==
    /\ calc.fn = "coolConfig" /\ calc.n = 0
    /\ calc' = [calc EXCEPT !.n = 1, !.out = coolConfig(calc.args.sg)]
    /\ UNCHANGED <<Main, regCall>>

\* --------------------------------------- readReg and writeReg, step by step
\* kind is "r" (readReg) or "w" (writeReg)
NewReg(kind, index, addr, value) ==
    [kind   |-> kind,
     index  |-> index,    \* m.index
     addr   |-> addr,
     value  |-> value,    \* writeReg: the value to write
     pc     |-> "open",
     opened |-> 0,        \* handles OpenHandle returned
     closed |-> 0,        \* Close calls on the handle
     locks  |-> 0,        \* globalMu.Lock calls
     tx     |-> << >>,    \* the frames handed to Xfer
     rx     |-> << >>,    \* the replies of the Xfers that succeeded
     err    |-> "",       \* the error to return ("" for nil)
     out    |-> 0]        \* readReg: the value to return

NoReg == [NewReg("", 1, 0, 0) EXCEPT !.pc = "idle"]

\* the caller of the register call, as holder of globalMu
RegCaller == 1

\* what an SPI device may answer
Replies ==
    { <<0, 0, 0, 0, 0>>, <<0, 1, 6, 18, 3>>, <<0, 0, 3, 32, 0>>,
      <<0, 255, 255, 196, 0>>, <<0, 128, 0, 0, 0>>, <<0, 127, 255, 255, 255>>,
      <<255, 255, 255, 255, 255>> }

\* variant: an Xfer error returns without running the deferred calls
AfterXferErrorNoDefer(r) == [r EXCEPT !.pc = "ret", !.err = "xfer"]

\* return err after an Xfer error: the deferred Unlock and Close run first
AfterXferError(r) == [r EXCEPT !.pc = "unlock", !.err = "xfer"]

\* m.bus.OpenHandle(): on an error the call returns at once
RegOpen ==
    /\ regCall.pc = "open"
    /\ \/ regCall' = [regCall EXCEPT !.pc = "ret", !.err = "open"]
       \/ regCall' = [regCall EXCEPT !.pc = "lock", !.opened = @ + 1]
    /\ UNCHANGED <<Main, calc>>

\* globalMu.Lock()
RegLock ==
    /\ regCall.pc = "lock" /\ mu = None
    /\ mu' = RegCaller
    /\ regCall' = [regCall EXCEPT !.pc = "xfer", !.locks = @ + 1]
    /\ UNCHANGED <<motor, scope, smMu, currentOp, opCancelled, opClosed, cancelledAt,
                   proc, raced, calc>>

\* handle.Xfer: the single one of writeReg, the first or the second of readReg
RegXfer ==
    /\ regCall.pc = "xfer"
    /\ LET frame == IF regCall.kind = "w" THEN writeFrame(regCall.index, regCall.addr, regCall.value)
                    ELSE readFrame(regCall.index, regCall.addr)
           sent == [regCall EXCEPT !.tx = Append(@, frame)]
       IN  \/ regCall' = AfterXferError(sent)
           \/ /\ regCall.kind = "w"
              /\ regCall' = [sent EXCEPT !.pc = "unlock"]
           \/ /\ regCall.kind = "r"
              /\ \E r \in Replies :
                    regCall' = IF regCall.rx = << >>
                           THEN [sent EXCEPT !.rx = <<r>>]
                           ELSE [sent EXCEPT
                                    !.rx = Append(@, r),
                                    !.pc = "unlock",
                                    !.out = int32Of(ReplyUsed(regCall.rx[1], r))]
    /\ UNCHANGED <<Main, calc>>

\* deferred globalMu.Unlock()
RegUnlock ==
    /\ regCall.pc = "unlock"
    /\ mu' = None
    /\ regCall' = [regCall EXCEPT !.pc = "close"]
    /\ UNCHANGED <<motor, scope, smMu, currentOp, opCancelled, opClosed, cancelledAt,
                   proc, raced, calc>>

\* deferred handle.Close() (its error is only logged), then the return
RegClose ==
    /\ regCall.pc = "close"
    /\ regCall' = [regCall EXCEPT !.pc = "ret", !.closed = @ + 1]
    /\ UNCHANGED <<Main, calc>>

\* ------------------------------------------------------------ specifications
InitMain(sc) ==
    /\ scope = sc
    /\ motor = [m \in Motors |-> makeMotor(m, HomeRPMCfg[m], NoExtra)]
    /\ mu = None
    /\ smMu = [m \in Motors |-> None]
    /\ currentOp = [m \in Motors |-> None]
    /\ opCancelled = [c \in Callers |-> FALSE]
    /\ opClosed = [c \in Callers |-> FALSE]
    /\ cancelledAt = [c \in Callers |-> ""]
    /\ proc = [c \in Callers |-> NewProc(NoCall, "idle")]
    /\ raced = FALSE

InitWith(sc) == InitMain(sc) /\ calc = NoCalc /\ regCall = NoReg

\* concurrent callers, few calls, short poll limits
Init ==
    InitWith([callers |-> Callers, calls |-> ConcCalls, faults |-> 0,
              stats |-> {0, VelReachedBit, VZeroBit},
              warm |-> SmallWarmLimit, stop |-> SmallStopLimit])

Next ==
    \E c \in Callers :
        \/ Start(c)
        \/ CancelCtx(c)
        \/ BeginNoCancel(c)
        \/ BeginCancel(c)
        \/ EndCancel(c)
        \/ WriteStep(c)
        \/ PollA(c)
        \/ PollB(c)
        \/ Sleep(c)
        \/ Done1(c)
        \/ Done2(c)

Spec == Init /\ [][Next]_vars

\* one caller, every call, every status value
InitSeq ==
    InitWith([callers |-> {1}, calls |-> SeqCalls, faults |-> MaxFaults,
              stats |-> StatValues,
              warm |-> SmallWarmLimit, stop |-> SmallStopLimit])

NextSeq ==
    \/ Start(1)
    \/ CancelCtx(1)
    \/ BeginNoCancel(1)
    \/ WriteStep(1)
    \/ PollA(1)
    \/ PollB(1)
    \/ Sleep(1)
    \/ Done1(1)
    \/ Done2(1)

SpecSeq == InitSeq /\ [][NextSeq]_vars

\* one caller: construction, GoFor, DoCommand, per-call ramp_parameters
InitApi ==
    InitWith([callers |-> {1}, calls |-> ApiCalls, faults |-> MaxFaults,
              stats |-> {0, VZeroBit},
              warm |-> SmallWarmLimit, stop |-> SmallStopLimit])

SpecApi == InitApi /\ [][NextSeq]_vars

\* the calls of InitApi on Motors whose Config sets v_max in ramp_parameters
InitVMaxCfg ==
    /\ scope = [callers |-> {1}, calls |-> ApiCalls, faults |-> MaxFaults,
                stats |-> {0, VZeroBit},
                warm |-> SmallWarmLimit, stop |-> SmallStopLimit]
    /\ motor = [m \in Motors |-> makeMotor(m, HomeRPMCfg[m], VMaxOverride)]
    /\ mu = None
    /\ smMu = [m \in Motors |-> None]
    /\ currentOp = [m \in Motors |-> None]
    /\ opCancelled = [c \in Callers |-> FALSE]
    /\ opClosed = [c \in Callers |-> FALSE]
    /\ cancelledAt = [c \in Callers |-> ""]
    /\ proc = [c \in Callers |-> NewProc(NoCall, "idle")]
    /\ raced = FALSE
    /\ calc = NoCalc
    /\ regCall = NoReg

SpecVMaxCfg == InitVMaxCfg /\ [][NextSeq]_vars

\* one caller homing, with the poll limits of the source
InitHome ==
    InitWith([callers |-> {1}, calls |-> {Call("home", m, 0, 0, 0, NoExtra) : m \in Motors},
              faults |-> MaxFaults, stats |-> {0, VelReachedBit, VZeroBit},
              warm |-> WarmLimit, stop |-> StopLimit])

SpecHome == InitHome /\ [][NextSeq]_vars

\* nothing of the motor API runs
NoScope ==
    [callers |-> {}, calls |-> {}, faults |-> 0, stats |-> {}, warm |-> 0, stop |-> 0]

\* Configs of initRampParameters: max_rpm (hundredths), max acceleration, ticks
InitRampArgs ==
    {[maxRPM |-> r, maxAcc |-> a, ticks |-> t] :
        r \in {6000, 20000, MaxRPMCfg}, a \in {200, MaxAccCfg}, t \in {TicksCfg, 400}}

\* the ramp parameters of an instance, and of one that merged TestOverride
MergeBases ==
    { initRampParameters(MaxRPMCfg, MaxAccCfg, TicksCfg * uSteps),
      mergeRampParameters(initRampParameters(MaxRPMCfg, MaxAccCfg, TicksCfg * uSteps),
                          TestOverride.rp) }

MergeOverrides ==
    { NoRamp, TestOverride.rp, VMaxOverride.rp, BadOverride.rp,
      [f \in RampFields |-> 7] }

\* int32 values of run_current, hold_current and hold_delay
CurrentArgs == {MinInt32, -9999, -1, 0, 1, 12, 14, 15, 16, 27, 32, 33, 9999, MaxInt32}

\* int32 values of sg_thresh
SGThreshArgs == {MinInt32, -9999, -65, -64, -63, -32, -1, 0, 1, 32, 63, 64, 9999, MaxInt32}

\* one function of the driver, applied to each argument of a bounded set
InitCalc ==
    /\ InitMain(NoScope)
    /\ regCall = NoReg
    /\ \/ calc \in {NewCalc("shiftAddr", [index |-> i, addr |-> a]) :
                        i \in {1, 2}, a \in 0..255}
       \/ calc \in {NewCalc("mergeRampParameters", [base |-> b, override |-> o]) :
                        b \in MergeBases, o \in MergeOverrides}
       \/ calc \in {NewCalc("initRampParameters", x) : x \in InitRampArgs}
       \/ calc \in {NewCalc("iCfg", [run |-> r, hold |-> h, delay |-> d]) :
                        r \in CurrentArgs, h \in CurrentArgs, d \in CurrentArgs}
       \/ calc \in {NewCalc("coolConfig", [sg |-> s]) : s \in SGThreshArgs}

NextCalc ==
    \/ ApplyShiftAddr
    \/ ApplyMerge
    \/ ApplyInitRamp
    \/ ApplyICfg
    \/ ApplyCoolConfig

SpecCalc == InitCalc /\ [][NextCalc]_vars

\* values writeReg is called with
RegValues == {MinInt32, -15360, -1, 0, 1, 65731, 163840, MaxInt32}

\* one readReg or writeReg call on either channel, for every address
InitReg ==
    /\ InitMain(NoScope)
    /\ calc = NoCalc
    /\ regCall \in {NewReg("r", i, a, 0) : i \in {1, 2}, a \in 0..255}
                   \cup {NewReg("w", i, a, v) : i \in {1, 2}, a \in 0..255, v \in RegValues}

NextReg ==
    \/ RegOpen
    \/ RegLock
    \/ RegXfer
    \/ RegUnlock
    \/ RegClose

SpecReg == InitReg /\ [][NextReg]_vars

\* register reads and writes of concurrent callers on both instances
BusCalls ==
    { Call("Jog", 1, 5000, 0, 0, NoExtra),
      Call("Jog", 2, -12500, 0, 0, NoExtra),
      Call("IsPowered", 1, 0, 0, 0, NoExtra),
      Call("IsPowered", 2, 0, 0, 0, NoExtra),
      Call("ResetZeroPosition", 1, 0, 0, 0, NoExtra) }

InitBus ==
    InitWith([callers |-> Callers, calls |-> BusCalls, faults |-> MaxFaults,
              stats |-> {0, VZeroBit},
              warm |-> SmallWarmLimit, stop |-> SmallStopLimit])

NextBus ==
    \E c \in Callers :
        \/ Start(c)
        \/ BeginNoCancel(c)
        \/ WriteStep(c)
        \/ PollA(c)
        \/ PollB(c)

\* a transfer returns, so the holder of globalMu goes on to its Unlock
\* (PollB); a goroutine waiting in globalMu.Lock gets the lock once it was
\* released often enough (sync.Mutex hands the lock to a starving waiter)
SpecBus ==
    /\ InitBus
    /\ [][NextBus]_vars
    /\ \A c \in Callers :
          /\ WF_vars(PollB(c))
          /\ SF_vars(WriteStep(c))
          /\ SF_vars(PollA(c))

\* ------------------------------------------------------------------ claims
\* the register writes of a log, as <<register, value>> pairs
IsWrite(e) == e.k = "w"

Writes(l) == SelectSeq(l, IsWrite)

RegVals(l) == [i \in 1..Len(l) |-> <<l[i].reg, l[i].val>>]

\* positions of the writes of value val to register reg
WritesOf(l, reg, val) ==
    {i \in 1..Len(l) : l[i].k = "w" /\ l[i].reg = reg /\ l[i].val = val}

\* goTillStop of a home call has returned
GtsReturned(p) ==
    /\ p.op.kind = "home"
    /\ \/ p.pc \in {"home_poll", "rz_poll", "rz_w"}
       \/ p.pc = "idle" /\ p.result # ""

\* C1: no transfer is issued while another caller holds globalMu, and a caller
\* between the two transfers of a register read holds globalMu, so no transfer
\* of another operation (of any caller or instance) falls between them.
C1_BusAtomic ==
    /\ ~raced
    /\ \A c \in Callers : proc[c].rd = 1 => mu = c

\* a read of one instance is between its transfers while a call on the other
\* instance has a register write or a read to issue
C1_Witness ==
    \E c, d \in Callers :
        /\ proc[c].rd = 1
        /\ proc[d].op.m # proc[c].op.m
        /\ proc[d].pc \in WritePcs \cup PollPcs

\* C2 as stated: a waiter that another command cancelled never returns success
C2_Original ==
    \A c \in Callers : cancelledAt[c] = "waiting" => proc[c].pending # "ok"

WaiterPcs == OpCtxPcs \cup {"sw_w", "clean_w", "done1", "done2"}

\* C2 amended: the context of the cancelled waiter is cancelled, the waiter
\* completes at most one status read after that, and it returns success only
\* when such a read (already past the context check) showed the awaited bit;
\* the cancelling command does not go on before the waiter called done().
C2_CancelledWaiter ==
    \A c \in Callers :
        cancelledAt[c] = "waiting" /\ proc[c].pc \in WaiterPcs =>
            /\ opCancelled[c]
            /\ proc[c].sinceCancel <= 1
            /\ (proc[c].pending = "ok" => proc[c].sinceCancel = 1)
            /\ (~opClosed[c] =>
                   \E d \in Callers : proc[d].pc \in {"cancelWait", "newWait"}
                                      /\ smMu[proc[c].op.m] = d)

\* a cancelled waiter returned the cancellation error, another one success
C2_Witness ==
    \E c \in Callers :
        /\ cancelledAt[c] = "waiting"
        /\ proc[c].pc = "done2"
        /\ proc[c].pending = "cancel"

\* C3 as stated: whatever goTillStop returns, its log holds the cleanup
\* (swMode = 0, then the zero-velocity jog) exactly once
C3_Original ==
    \A c \in Callers :
        GtsReturned(proc[c]) =>
            \E i \in 1..Len(proc[c].log) :
                /\ WritesOf(proc[c].log, swMode, 0) = {i}
                /\ i + 2 <= Len(proc[c].log)
                /\ <<proc[c].log[i + 1].reg, proc[c].log[i + 1].val>> = <<rampMode, modeVelPos>>
                /\ <<proc[c].log[i + 2].reg, proc[c].log[i + 2].val>> = <<vMax, 0>>

\* C4: GoTo issues ramp-mode = Position, the seven ramp registers of the
\* effective parameters, max-velocity and target-position, once each and in
\* this order, and reads the ramp status only after them.
C4_GoToWriteOrder ==
    \A c \in Callers :
        LET p == proc[c]
            m == p.op.m
            rp == [f \in RampFields |->
                      IF p.op.extra.has /\ p.op.extra.rp[f] # Nil
                      THEN p.op.extra.rp[f] ELSE motor[m].rampParams[f]]
            want == << <<rampMode, modePosition>>, <<a1, rp.A1>>, <<aMax, rp.AMax>>,
                       <<d1, rp.D1>>, <<dMax, rp.DMax>>, <<vStart, rp.VStart>>,
                       <<vStop, rp.VStop>>, <<v1, rp.V1>>,
                       <<vMax, rpmToV(Abs(p.op.rpm), motor[m].maxRPM, motor[m].stepsPerRev)>>,
                       <<xTarget, TruncDiv(p.op.pos * motor[m].stepsPerRev, RevDen)>> >>
            ws == RegVals(Writes(p.log))
        IN  p.op.kind = "GoTo" =>
                /\ Len(ws) <= Len(want)
                /\ ws = SubSeq(want, 1, Len(ws))
                /\ (p.pc \notin {"new", "goto_w"} => ws = want)
                /\ \A i \in 1..Len(p.log) : p.log[i].k = "r" => i > Len(want)
                /\ (p.op = Call("GoTo", 1, 5000, 0, 32, NoExtra) /\ p.pc = "idle" =>
                       ws = << <<32, 0>>, <<36, 5384>>, <<38, 5384>>, <<42, 5384>>,
                               <<40, 5384>>, <<35, 1>>, <<43, 10>>, <<37, 135573>>,
                               <<39, 54229>>, <<45, 163840>> >>)

\* a GoTo with ramp_parameters sleeps between two polls of its wait
C4_Witness ==
    \E c \in Callers :
        /\ proc[c].op.kind = "GoTo"
        /\ proc[c].op.extra.has
        /\ proc[c].pc = "wait_sleep"

C6_Original ==
    \A c \in Callers :
        proc[c].ctx /\ proc[c].pc \in PollPcs \cup SleepPcs => proc[c].sinceCancel <= 1

\* C7 as stated: the warm-up loop reads the flag at most 500 times
C7_Original ==
    \A c \in Callers :
        /\ (proc[c].pc \in {"warm_sleep", "warm_poll"} => proc[c].polls <= WarmLimit)
        /\ (proc[c].pending = WarmTimeoutErr => proc[c].polls <= WarmLimit)

\* C7 amended: the warm-up loop reads the flag at most 501 times; the
\* timeout error is returned after exactly 501 reads without the flag, and
\* stall detection was not enabled.
C7_WarmupBound ==
    \A c \in Callers :
        /\ (proc[c].pc \in {"warm_sleep", "warm_poll"} =>
               proc[c].polls <= WarmLimit /\ proc[c].polls = proc[c].fails)
        /\ (proc[c].pending = WarmTimeoutErr =>
               /\ proc[c].polls = WarmLimit + 1
               /\ WritesOf(proc[c].log, swMode, SgStopEnable) = {}
               /\ (proc[c].pc = "idle" => proc[c].result = WarmTimeoutErr))

C7_Witness ==
    \E c \in Callers : proc[c].pc = "idle" /\ proc[c].result = WarmTimeoutErr

\* C8 as stated: after stall detection is enabled the motion-stopped flag is
\* read at most 10,000 times
C8_Original ==
    \A c \in Callers :
        /\ (proc[c].pc \in {"stop_sleep", "stop_poll"} => proc[c].polls <= StopLimit)
        /\ (proc[c].pending = StopTimeoutErr => proc[c].polls <= StopLimit)

\* C8 amended: the flag is read at most 10,001 times after stall detection was
\* enabled; the endstop timeout error is returned after exactly 10,001 reads
\* without the flag, and it differs from the warm-up timeout error.
C8_EndstopBound ==
    /\ WarmTimeoutErr # StopTimeoutErr
    /\ \A c \in Callers :
        /\ (proc[c].pc \in {"stop_sleep", "stop_poll"} =>
               /\ proc[c].polls <= StopLimit /\ proc[c].polls = proc[c].fails
               /\ WritesOf(proc[c].log, swMode, SgStopEnable) # {})
        /\ (proc[c].pending = StopTimeoutErr =>
               /\ proc[c].polls = StopLimit + 1
               /\ WritesOf(proc[c].log, swMode, SgStopEnable) # {}
               /\ (proc[c].pc = "idle" => proc[c].result = StopTimeoutErr))

C8_Witness ==
    \E c \in Callers : proc[c].pc = "idle" /\ proc[c].result = StopTimeoutErr

\* C9: home jogs at the negated home rpm of the configuration (max_rpm / 4
\* when unset); a position register is written only after goTillStop returned
\* nil and a later ramp-status read had the stopped bit; an error of
\* goTillStop is what home returns.
C9_HomeOrder ==
    \A c \in Callers :
        LET p == proc[c]
            m == p.op.m
            l == p.log
            cfg == HomeRPMCfg[m]
            rpm == -1 * (IF cfg = 0 THEN MaxRPMCfg \div 4 ELSE cfg)
        IN  p.op.kind = "home" =>
                /\ (Len(l) >= 1 =>
                       <<l[1].reg, l[1].val>> =
                           <<rampMode, IF rpm < 0 THEN modeVelNeg ELSE modeVelPos>>)
                /\ (Len(l) >= 2 =>
                       <<l[2].reg, l[2].val>> =
                           <<vMax, rpmToV(Abs(rpm), MaxRPMCfg, TicksCfg * uSteps)>>)
                /\ \A i \in 1..Len(l) :
                       l[i].k = "w" /\ l[i].reg \in {xTarget, xActual} =>
                           /\ p.pending = "ok"
                           /\ \E j \in 1..(i - 1) :
                                 /\ l[j] = Ev("r", rampStat, l[j].val, "ok")
                                 /\ HasBit(l[j].val, VZeroBit)
                                 /\ \E k \in 1..(j - 1) : l[k].k = "w" /\ l[k].reg = swMode
                                                          /\ l[k].val = 0
                                 /\ \A k \in (j + 1)..i : l[k].k = "w"
                /\ (p.pc = "idle" /\ p.pending \notin {"", "ok"} => p.result = p.pending)

\* home wrote the zero position; another home returned the error of its jog
C9_Witness ==
    \E c \in Callers :
        /\ proc[c].op.kind = "home"
        /\ proc[c].op.m = 2
        /\ proc[c].pc = "idle"
        /\ proc[c].result = "ok"
        /\ WritesOf(proc[c].log, xActual, 0) # {}

\* C10: ResetZeroPosition whose ramp-status read has the stopped bit clear
\* returns the moving error and issues no register write.
C10_ZeroWhileMoving ==
    \A c \in Callers :
        LET p == proc[c]
        IN  /\ p.op.kind = "ResetZeroPosition"
            /\ Len(p.log) >= 1
            /\ p.log[1].st = "ok"
            /\ ~HasBit(p.log[1].val, VZeroBit)
            => /\ p.pc = "idle"
               /\ p.result = "moving"
               /\ Len(p.log) = 1

C10_Witness ==
    \E c \in Callers :
        /\ proc[c].op.kind = "ResetZeroPosition"
        /\ proc[c].pc = "idle"
        /\ proc[c].result = "moving"
        /\ proc[c].log[1].val = VelReachedBit

\* C11 as stated: ResetZeroPosition(offset) that read the motor stopped and
\* returned nil issued exactly the three writes ramp-mode = Hold,
\* target-position = v, actual-position = v, v = -offset * stepsPerRev
C11_Original ==
    \A c \in Callers :
        LET p == proc[c]
            v == TruncDiv(-1 * p.op.pos * motor[p.op.m].stepsPerRev, RevDen)
        IN  p.op.kind = "ResetZeroPosition" /\ p.pc = "idle" /\ p.result = "ok" =>
                RegVals(Writes(p.log)) =
                    << <<rampMode, modeHold>>, <<xTarget, v>>, <<xActual, v>> >>

\* C12: GoFor with |rpm| below 0.1 (0 and 0.05 here) returns the zero-rpm
\* error in its first step: it issues no bus transfer, takes no lock and
\* cancels no operation of the instance.
C12_ZeroRpm ==
    [][\A c \in Callers :
          /\ proc'[c] # proc[c]
          /\ proc[c].pc = "idle"
          /\ proc'[c].op.kind = "GoFor"
          /\ proc'[c].op.rpm \in {0, 5}
          => /\ proc'[c].pc = "idle"
             /\ proc'[c].result = "zero_rpm"
             /\ proc'[c].log = << >>
             /\ UNCHANGED <<motor, mu, smMu, currentOp, opCancelled, opClosed, raced>>]_vars

\* a GoFor at 0.05 rpm returned the zero-rpm error while a GoTo of another
\* caller on the same instance goes on waiting, not cancelled
C12_Witness ==
    \E c, d \in Callers :
        /\ proc[c].op = Call("GoFor", 1, 5, 0, 32, NoExtra)
        /\ proc[c].result = "zero_rpm"
        /\ proc[d].op.kind = "GoTo"
        /\ proc[d].op.m = 1
        /\ proc[d].pc = "wait_sleep"
        /\ currentOp[1] = d
        /\ ~opCancelled[d]

\* C13 as stated: every GoFor with a nonzero rpm reads the position and goes on
\* to the writes of GoTo
C13_Original ==
    \A c \in Callers :
        LET p == proc[c]
        IN  p.op.kind = "GoFor" /\ p.op.rpm # 0 /\ p.pc = "idle" /\ p.faults = 0 =>
                /\ Len(p.log) > 1
                /\ p.log[1].k = "r" /\ p.log[1].reg = xActual

\* C13 amended: for every rpm with |rpm| >= 0.1, GoFor reads xActual once,
\* before anything else, and then issues the writes of GoTo with max-velocity
\* = the velocity value of |rpm| and target = current + |rotations| when rpm and
\* rotations have the same sign, current - |rotations| when they differ (both
\* negative moves forward); when the read fails it returns the error.
C13_GoForTarget ==
    \A c \in Callers :
        LET p == proc[c]
            l == p.log
            ws == RegVals(Writes(l))
            sgn == IF (p.op.rpm < 0) = (p.op.pos < 0) THEN 1 ELSE -1
            step == (TicksCfg * uSteps) \div RevDen
        IN  p.op.kind = "GoFor" /\ Abs(p.op.rpm) * 10 >= RpmDen =>
                /\ (p.pc # "pos_poll" => Len(l) >= 1)
                /\ \A i \in 1..Len(l) : (l[i].reg = xActual /\ l[i].k = "r") <=> i = 1
                /\ (Len(l) >= 1 /\ l[1].st # "ok" =>
                       p.pc = "idle" /\ p.result = "xfer" /\ Len(l) = 1)
                /\ (Len(ws) >= 10 =>
                       /\ ws[1] = <<rampMode, modePosition>>
                       /\ ws[9] = <<vMax, IF Abs(p.op.rpm) = 5000 THEN 54229
                                          ELSE rpmToV(Abs(p.op.rpm), MaxRPMCfg, TicksCfg * uSteps)>>
                       /\ ws[10] = <<xTarget, l[1].val + sgn * Abs(p.op.pos) * step>>)
                /\ (p.pc \in OpCtxPcs => Len(ws) = 10)

\* GoFor(-50 rpm, -3.2 rev) at position 3.2 rev waits for the move it commanded
C13_Witness ==
    \E c \in Callers :
        /\ proc[c].op = Call("GoFor", 1, -5000, 0, -32, NoExtra)
        /\ proc[c].pc = "wait_sleep"
        /\ proc[c].log[1].val = 163840
        /\ proc[c].log[11] = Ev("w", xTarget, 327680, "ok")

\* the last value successfully written to register reg in log l (Nil if none)
LastWritten(l, reg) ==
    LET S == {i \in 1..Len(l) : l[i].k = "w" /\ l[i].reg = reg /\ l[i].st = "ok"}
    IN  IF S = {} THEN Nil ELSE l[CHOOSE i \in S : \A j \in S : j <= i].val

\* C14 as stated: when makeMotor succeeded for a Config that Validate accepts,
\* the chip was left with ramp-mode = velocity-forward, max-velocity = 0 and
\* actual-position = 0
C14_Original ==
    \A c \in Callers :
        LET p == proc[c]
        IN  p.op.kind = "makeMotor" /\ p.pc = "idle" /\ p.result = "ok" =>
                /\ LastWritten(p.log, rampMode) = modeVelPos
                /\ LastWritten(p.log, vMax) = 0
                /\ LastWritten(p.log, xActual) = 0

\* C15 as stated: in a multi-write operation a failed register write is the
\* last bus transfer the operation issues
C15_Original ==
    \A c \in Callers :
        LET p == proc[c]
        IN  p.op.kind \in {"makeMotor", "Jog", "SetPower", "Stop", "SetRPM", "GoTo",
                          "ResetZeroPosition"} =>
                \A i \in 1..Len(p.log) :
                    p.log[i].k = "w" /\ p.log[i].st # "ok" => i = Len(p.log)

\* the velocity register values of the speeds the calls use (in 1/100 rpm),
\* as the bytes of the tests give them; a speed above max_rpm counts as max_rpm
VelocityOf(speed) ==
    CASE speed = 0 -> 0
      [] speed = 12500 -> 135573
      [] speed = 25000 -> 271146
      [] speed >= 50000 -> 542293

\* C16: Jog(rpm), SetPower(pct) with rpm = pct * maxRPM, and Stop with rpm = 0,
\* issue exactly two register writes and no read: ramp-mode =
\* velocity-forward when rpm >= 0 and velocity-reverse when rpm < 0, then
\* max-velocity = the velocity value of |rpm| clamped to maxRPM.
C16_JogWrites ==
    \A c \in Callers :
        LET p == proc[c]
            rpm == CASE p.op.kind = "Jog" -> p.op.rpm
                     [] p.op.kind = "SetPower" -> (p.op.pct * MaxRPMCfg) \div 100
                     [] OTHER -> 0
            want == << <<rampMode, IF rpm < 0 THEN modeVelNeg ELSE modeVelPos>>,
                       <<vMax, VelocityOf(Abs(rpm))>> >>
            ws == RegVals(p.log)
        IN  p.op.kind \in {"Jog", "SetPower", "Stop"} =>
                /\ \A i \in 1..Len(p.log) : p.log[i].k = "w"
                /\ Len(ws) <= 2
                /\ ws = SubSeq(want, 1, Len(ws))
                /\ (p.pc = "idle" =>
                       /\ ws = want
                       /\ p.result = IF p.faults = 0 THEN "ok" ELSE "xfer")

\* Jog at 600 rpm (above max_rpm), SetPower(-0.25) or Stop returned nil
C16_Witness ==
    \E c \in Callers :
        /\ proc[c].op \in {Call("Jog", 1, 60000, 0, 0, NoExtra),
                           Call("SetPower", 1, 0, -25, 0, NoExtra),
                           Call("Stop", 1, 0, 0, 0, NoExtra)}
        /\ proc[c].pc = "idle"
        /\ proc[c].result = "ok"
        /\ Len(proc[c].log) = 2

\* C17: SetRPM issues ramp-mode (velocity-forward or -reverse by the sign of
\* rpm), then a1, aMax, d1, dMax, vStart, vStop, v1 from the base parameters
\* merged with the override of the call, then max-velocity; it reads no
\* register and returns after the last write.
C17_SetRPMWrites ==
    \A c \in Callers :
        LET p == proc[c]
            m == p.op.m
            rp == [f \in RampFields |->
                      IF p.op.extra.has /\ p.op.extra.rp[f] # Nil
                      THEN p.op.extra.rp[f] ELSE motor[m].rampParams[f]]
            want == << <<rampMode, IF p.op.rpm < 0 THEN modeVelNeg ELSE modeVelPos>>,
                       <<a1, rp.A1>>, <<aMax, rp.AMax>>, <<d1, rp.D1>>, <<dMax, rp.DMax>>,
                       <<vStart, rp.VStart>>, <<vStop, rp.VStop>>, <<v1, rp.V1>>,
                       <<vMax, VelocityOf(Abs(p.op.rpm))>> >>
            ws == RegVals(p.log)
        IN  p.op.kind = "SetRPM" =>
                /\ \A i \in 1..Len(p.log) : p.log[i].k = "w"
                /\ Len(ws) <= Len(want)
                /\ ws = SubSeq(want, 1, Len(ws))
                /\ (p.pc \notin {"cancel", "rpm_w"} => p.pc = "idle" /\ ws = want)
                /\ (p.op = Call("SetRPM", 1, 25000, 0, 0, TestOverride) /\ p.pc = "idle" =>
                       ws = << <<32, 1>>, <<36, 3000>>, <<38, 3500>>, <<42, 2500>>,
                               <<40, 3600>>, <<35, 0>>, <<43, 10>>, <<37, 1256>>,
                               <<39, 271146>> >>)

\* SetRPM(250 rpm) with the ramp_parameters of the test returned nil
C17_Witness ==
    \E c \in Callers :
        /\ proc[c].op = Call("SetRPM", 1, 25000, 0, 0, TestOverride)
        /\ proc[c].pc = "idle"
        /\ proc[c].result = "ok"

\* C18: DoCommand with no command key, with an unknown command name, or with a
\* jog command whose rpm is absent or not a float64, returns the request
\* error of that case in its first step: no bus transfer, no lock, no change
\* of the Motor or of its operation.
C18_BadRequest ==
    [][\A c \in Callers :
          LET q == proc'[c]
              want == CASE ~q.op.cmd.has -> "missing command value"
                        [] q.op.cmd.name = "spin" -> "no such command"
                        [] q.op.cmd.arg = "none" -> "need rpm value for jog"
                        [] OTHER -> "rpm value must be floating point"
          IN  /\ q # proc[c]
              /\ proc[c].pc = "idle"
              /\ q.op.kind = "DoCommand"
              /\ (~q.op.cmd.has \/ q.op.cmd.name = "spin" \/ q.op.cmd.arg # "float")
              => /\ q.pc = "idle"
                 /\ q.result = want
                 /\ q.log = << >>
                 /\ UNCHANGED <<motor, mu, smMu, currentOp, opCancelled, opClosed, raced>>]_vars

\* a jog command with an rpm that is no float64 was refused; so was one
\* without rpm
C18_Witness ==
    \E c \in Callers :
        /\ proc[c].op.kind = "DoCommand"
        /\ proc[c].op.cmd.name = "jog"
        /\ proc[c].op.cmd.arg = "none"
        /\ proc[c].pc = "idle"
        /\ proc[c].result = "need rpm value for jog"

\* the ramp parameters makeMotor derives for the Config of the instances
BaseRamp ==
    [VStart |-> 1, VStop |-> 10, V1 |-> 135573, A1 |-> 5384, D1 |-> 5384,
     VMax |-> 0, AMax |-> 5384, DMax |-> 5384]

\* C19: the base ramp parameters of an instance stay what makeMotor stored,
\* whatever per-call overrides GoTo and SetRPM merged before: a GoTo or SetRPM
\* without override writes the seven base values.
C19_BaseKept ==
    /\ \A m \in Motors : motor[m].rampParams = BaseRamp
    /\ \A c \in Callers :
           LET p == proc[c]
               ws == RegVals(Writes(p.log))
               want == << <<a1, 5384>>, <<aMax, 5384>>, <<d1, 5384>>, <<dMax, 5384>>,
                          <<vStart, 1>>, <<vStop, 10>>, <<v1, 135573>> >>
           IN  p.op.kind \in {"GoTo", "SetRPM"} /\ ~p.op.extra.has =>
                   \A i \in 2..Min(Len(ws), 8) : ws[i] = want[i - 1]

\* after a call that merged ramp_parameters, a SetRPM without them has
\* written its registers
C19_Witness ==
    \E c \in Callers :
        /\ motor[proc[c].op.m].merged
        /\ proc[c].op.kind = "SetRPM"
        /\ ~proc[c].op.extra.has
        /\ proc[c].pc = "idle"
        /\ proc[c].result = "ok"

\* the rampParameters field a ramp register is written from
RegField(reg) ==
    CASE reg = a1 -> "A1" [] reg = aMax -> "AMax" [] reg = d1 -> "D1"
      [] reg = dMax -> "DMax" [] reg = vStart -> "VStart" [] reg = vStop -> "VStop"
      [] reg = v1 -> "V1"

\* C20 as stated: every value written to a ramp-parameter register lies in the
\* range validate enforces for its field
C20_Original ==
    \A c \in Callers :
        \A i \in 1..Len(proc[c].log) :
            LET e == proc[c].log[i]
            IN  e.k = "w" /\ e.reg \in {a1, aMax, d1, dMax, vStart, vStop, v1} =>
                    InRange(RegField(e.reg), e.val)

\* C21 (as stated): a GoTo or SetRPM whose ramp_parameters map has a
\* recognized key with a value that is not numeric fails with a request error
\* and issues no register write.
C21_Original ==
    \A c \in Callers :
        LET p == proc[c]
        IN  /\ p.op.kind \in {"GoTo", "SetRPM"}
            /\ p.op.extra.has
            /\ \E f \in RampFields : p.op.extra.rp[f] = NotNumeric
            => /\ Writes(p.log) = << >>
               /\ p.pc = "idle" => p.result \notin {"", "ok"}

\* the default ramp parameters initRampParameters returned, for arguments a,
\* apart from the max velocity
DerivedDefaults(a, out) ==
    /\ out.VStart = 1
    /\ out.VStop = 10
    /\ out.V1 = rpmToV(TruncDiv(a.maxRPM, 4), a.maxRPM, a.ticks * uSteps)
    /\ \A f \in {"A1", "AMax", "D1", "DMax"} : out[f] = rpmsToA(a.maxAcc, a.ticks * uSteps)
    /\ (a.maxRPM = MaxRPMCfg /\ a.maxAcc = MaxAccCfg /\ a.ticks = TicksCfg
           => out.V1 = 135573 /\ out.A1 = 5384)

\* C22 (as stated): the derived defaults are vStart 1, vStop 10, v1 the
\* velocity value of maxRPM / 4, the four accelerations the acceleration
\* value of the configured maximum, and max velocity the velocity value of
\* maxRPM.
C22_Original ==
    calc.fn = "initRampParameters" /\ calc.n = 1 =>
        /\ DerivedDefaults(calc.args, calc.out)
        /\ calc.out.VMax = rpmToV(calc.args.maxRPM, calc.args.maxRPM, calc.args.ticks * uSteps)

\* C22: the derived defaults are vStart 1, vStop 10, v1 the velocity value
\* of maxRPM / 4, the four accelerations the acceleration value of the
\* configured maximum, and max velocity 0 (the velocity value of 0 rpm).
C22_DerivedDefaults ==
    calc.fn = "initRampParameters" /\ calc.n = 1 =>
        /\ DerivedDefaults(calc.args, calc.out)
        /\ calc.out.VMax = 0

\* the defaults of the Config of the tests were derived
C22_Witness ==
    /\ calc.fn = "initRampParameters" /\ calc.n = 1
    /\ calc.args = [maxRPM |-> MaxRPMCfg, maxAcc |-> MaxAccCfg, ticks |-> TicksCfg]
    /\ calc.out.V1 = 135573

\* the current the chip is to get for a run_current or hold_current of x,
\* with default dflt: 0 selects the default, any other input is x - 1
\* clamped into 0..31
CurrentWanted(x, dflt) ==
    CASE x = 0 -> dflt
      [] x < 0 -> 0
      [] x > 32 -> 31
      [] OTHER -> x - 1

\* the hold delay the chip is to get for a hold_delay of x
HoldDelayWanted(x) ==
    CASE x = 0 -> 6
      [] x < 0 -> 0
      [] x > 15 -> 15
      [] OTHER -> x

\* C23 (as stated): for every int32 run_current, hold_current and hold_delay
\* the run and hold currents handed to the chip lie in 0..31 (0 selects the
\* default 15 resp. 8, any other input gives input - 1 clamped, so negative
\* inputs give 0 and large ones 31), the hold delay lies in 0..15 (0 selects
\* 6, negative gives 0, above 15 gives 15), and the three are packed as
\* delay << 16 | run << 8 | hold.
C23_Original ==
    calc.fn = "iCfg" /\ calc.n = 1 =>
        LET run == (calc.out \div 2^8) % 2^8
            hold == calc.out % 2^8
            delay == calc.out \div 2^16
        IN  /\ run = CurrentWanted(calc.args.run, 15)
            /\ hold = CurrentWanted(calc.args.hold, 8)
            /\ delay = HoldDelayWanted(calc.args.delay)

\* C24: every successful register read issues exactly two transfers with the
\* same 5-byte request (the shifted address, then four zero bytes), ignores
\* the reply to the first and returns the big-endian signed 32-bit value of
\* bytes 1..4 of the reply to the second.
C24_ReadProtocol ==
    regCall.kind = "r" /\ regCall.pc = "ret" /\ regCall.err = "" =>
        /\ Len(regCall.tx) = 2
        /\ regCall.tx[1] = regCall.tx[2]
        /\ regCall.tx[1] = <<shiftAddr(regCall.index, regCall.addr), 0, 0, 0, 0>>
        /\ Len(regCall.rx) = 2
        /\ regCall.out >= MinInt32 /\ regCall.out <= MaxInt32
        /\ \A k \in 0..3 : Byte(regCall.out, k) = regCall.rx[2][5 - k]

\* a read on channel 2 of the ramp status returned the negative value of the
\* second reply, which differs from the first
C24_Witness ==
    /\ regCall.kind = "r" /\ regCall.pc = "ret" /\ regCall.err = ""
    /\ regCall.index = 2 /\ regCall.addr = rampStat
    /\ regCall.tx[1][1] = 85
    /\ regCall.rx = << <<0, 1, 6, 18, 3>>, <<0, 255, 255, 196, 0>> >>
    /\ regCall.out = -15360

\* C25: for every 8-bit register address, channel 1 leaves the address
\* unchanged; channel 2 adds 0x08 in [0x10, 0x11], 0x20 in [0x20, 0x3C],
\* 0x10 in [0x6A, 0x6F], and leaves every other address unchanged.
C25_ShiftAddr ==
    calc.fn = "shiftAddr" /\ calc.n = 1 =>
        LET a == calc.args.addr
        IN  /\ calc.out \in 0..255
            /\ calc.args.index = 1 => calc.out = a
            /\ calc.args.index = 2 =>
                  /\ a \in 16..17 => calc.out = a + 8
                  /\ a \in 32..60 => calc.out = a + 32
                  /\ a \in 106..111 => calc.out = a + 16
                  /\ a \notin (16..17) \cup (32..60) \cup (106..111) => calc.out = a

\* the last register of the ramp block (0x3C) was shifted for channel 2
C25_Witness ==
    /\ calc.fn = "shiftAddr" /\ calc.n = 1
    /\ calc.args = [index |-> 2, addr |-> 60]
    /\ calc.out = 92

\* C26: every register write that reaches the bus issues exactly one
\* transfer, whose frame is the shifted address with the write flag 0x80 set,
\* followed by the four bytes of the value, most significant first, for every
\* address and every 32-bit value, negative ones included.
C26_WriteFrame ==
    /\ regCall.kind = "w" => Len(regCall.tx) <= 1
    /\ regCall.kind = "w" /\ regCall.pc = "ret" /\ regCall.opened = 1 =>
          /\ Len(regCall.tx) = 1
          /\ Len(regCall.tx[1]) = 5
          /\ \A i \in 1..5 : regCall.tx[1][i] \in 0..255
          /\ regCall.tx[1][1] = (shiftAddr(regCall.index, regCall.addr) % 128) + 128
          /\ int32Of(regCall.tx[1]) = regCall.value

\* a negative value was written to the position register of channel 2
C26_Witness ==
    /\ regCall.kind = "w" /\ regCall.pc = "ret" /\ regCall.err = ""
    /\ regCall.index = 2 /\ regCall.addr = xActual /\ regCall.value = -15360
    /\ regCall.tx = << <<193, 255, 255, 196, 0>> >>

\* C27: every bus handle a register read or write opened is closed exactly
\* once before the call returns, on success and on every error path; when
\* opening fails no transfer is attempted and the global lock is never taken.
C27_HandleClosed ==
    /\ regCall.closed <= regCall.opened /\ regCall.opened <= 1
    /\ regCall.tx # << >> => regCall.opened = 1 /\ regCall.locks = 1
    /\ regCall.pc = "xfer" => regCall.opened = 1 /\ regCall.closed = 0 /\ mu = RegCaller
    /\ regCall.pc = "ret" =>
          /\ regCall.closed = regCall.opened
          /\ mu = None
          /\ regCall.err = "open" <=> regCall.opened = 0
          /\ regCall.opened = 0 => regCall.tx = << >> /\ regCall.locks = 0

\* a read whose second transfer failed returned with its handle closed
C27_Witness ==
    /\ regCall.kind = "r" /\ regCall.pc = "ret" /\ regCall.err = "xfer"
    /\ Len(regCall.tx) = 2 /\ Len(regCall.rx) = 1
    /\ regCall.opened = 1 /\ regCall.closed = 1

\* C30: merging an override onto a base takes each field of the override
\* that is present and the base's field otherwise; merging the same override
\* again changes nothing, merging an empty override returns the base, and
\* the base record is left as it was.
C30_MergeAlgebra ==
    [][calc.fn = "mergeRampParameters" /\ calc' # calc =>
          /\ calc'.args = calc.args
          /\ \A f \in RampFields :
                calc'.out[f] = IF calc.args.override[f] = Nil
                               THEN calc.args.base[f] ELSE calc.args.override[f]
          /\ calc.n = 1 => calc'.out = calc.out
          /\ calc.args.override = NoRamp => calc'.out = calc.args.base]_vars

\* the override of the tests was merged twice onto the derived defaults
C30_Witness ==
    /\ calc.fn = "mergeRampParameters" /\ calc.n = 2
    /\ calc.args.base = BaseRamp
    /\ calc.args.override = TestOverride.rp
    /\ calc.out = [VStart |-> 0, VStop |-> 10, V1 |-> 1256, A1 |-> 3000, D1 |-> 2500,
                   VMax |-> 0, AMax |-> 3500, DMax |-> 3600]

\* where a caller is between the return of opMgr.New and the end of done()
InOpPcs == WaiterPcs \cup {"goto_w"}

\* the callers whose operation on instance m is registered and has not
\* finished (its done() has not closed the wait channel)
Awaiting(m) ==
    {c \in Callers : proc[c].op.m = m /\ proc[c].pc \in InOpPcs /\ ~opClosed[c]}

\* C28: each instance has at most one operation registered as awaiting
\* completion, the one in its single slot; an operation replaces another in
\* the slot only after that one was cancelled and has finished: a caller
\* still inside its operation that no longer owns the slot was cancelled and
\* has finished.
C28_SingleOperation ==
    \A m \in Motors :
        /\ Cardinality(Awaiting(m)) <= 1
        /\ \A c \in Callers :
              proc[c].op.m = m /\ proc[c].pc \in InOpPcs /\ currentOp[m] # c =>
                  opCancelled[c] /\ opClosed[c]

\* a second operation is registered on an instance while the first, cancelled
\* and finished, has not yet returned
C28_Witness ==
    \E c, d \in Callers :
        /\ c # d /\ proc[c].op.m = proc[d].op.m
        /\ proc[c].pc = "done2" /\ opCancelled[c] /\ opClosed[c]
        /\ proc[d].pc \in InOpPcs /\ ~opClosed[d]
        /\ currentOp[proc[d].op.m] = d

CleanupPcs == {"clean_w", "done1", "done2"}

\* C31: the result goTillStop returns is the outcome of its polling phase
\* (success, timeout, transport error or cancellation); the cleanup writes,
\* failed or not, leave it as it is.
C31_CleanupKeepsResult ==
    [][\A c \in Callers :
         LET p == proc[c]
             q == proc'[c]
         IN  p.op.kind = "home" =>
               /\ p.pc \notin CleanupPcs /\ q.pc = "clean_w" =>
                     LET e == q.log[Len(q.log)]
                     IN  /\ q.pending \in {"ok", "xfer", "cancel"} \cup Timeouts
                         /\ q.pending = "xfer" <=> e.st # "ok"
                         /\ q.pending = "cancel" <=> p.pc \in SleepPcs
                         /\ q.pending = "ok" =>
                               p.pc = "stop_poll" /\ (e.val \div 1024) % 2 = 1
                         /\ q.pending \in Timeouts =>
                               e.k = "r" /\ p.pc \in {"warm_poll", "stop_poll"}
               /\ p.pc \in CleanupPcs /\ q.pc \in CleanupPcs => q.pending = p.pending
               /\ p.pc = "done2" /\ q.pc # "done2" =>
                     IF p.pending = "ok" THEN q.pc = "home_poll"
                     ELSE q.pc = "idle" /\ q.result = p.pending]_vars

\* homing returned the warm-up timeout although a cleanup write had failed
C31_Witness ==
    \E c \in Callers :
        /\ proc[c].op.kind = "home"
        /\ proc[c].pc = "idle"
        /\ proc[c].result = WarmTimeoutErr
        /\ \E i \in 1..Len(proc[c].log) :
              /\ proc[c].log[i].k = "w" /\ proc[c].log[i].reg = swMode
              /\ proc[c].log[i].val = 0 /\ proc[c].log[i].st # "ok"

\* C32: the power percentage IsPowered reports is the one stored in the
\* instance, which is 0 after construction, becomes the argument of SetPower
\* when SetPower runs, and is changed by no step of any other operation,
\* whatever status the chip reports.
C32_PowerReadback ==
    /\ \A m \in Motors : motor[m].powerPct = 0
    /\ [][\A c \in Callers :
            LET p == proc[c]
                q == proc'[c]
                m == p.op.m
            IN  /\ \A n \in Motors :
                      motor'[n].powerPct # motor[n].powerPct =>
                          \E d \in Callers :
                              /\ proc[d].op.kind = "SetPower" /\ proc[d].op.m = n
                              /\ proc[d].pc = "cancel" /\ proc'[d].pc # "cancel"
                              /\ motor'[n].powerPct = proc[d].op.pct
                /\ p.op.kind = "SetPower" /\ p.pc = "cancel" /\ q.pc # "cancel" =>
                      motor'[m].powerPct = p.op.pct
                /\ p.op.kind = "IsPowered" /\ p.pc # "idle" /\ q.pc = "idle" =>
                      q.target = motor[m].powerPct /\ motor'[m] = motor[m]]_vars

\* IsPowered reported the -25 percent of an earlier SetPower, with the chip
\* reporting the motor stopped
C32_Witness ==
    \E c \in Callers :
        /\ proc[c].op.kind = "IsPowered"
        /\ proc[c].pc = "idle"
        /\ proc[c].result = "off"
        /\ proc[c].target = -25
        /\ motor[proc[c].op.m].powerPct = -25

\* the cleanup writes of goTillStop are the last writes in log l
CleanupIssued(l, m) ==
    LET w == RegVals(Writes(l))
        n == Len(w)
    IN  /\ n >= 3
        /\ SubSeq(w, n - 2, n) =
              [i \in 1..3 |-> <<CleanupWrites(m)[i].reg, CleanupWrites(m)[i].val>>]

\* C33: when a Jog, SetPower, SetRPM, Stop or GoTo returns from the wait in
\* CancelRunning / New for the stall-detection jog it cancelled, it has
\* issued no register write yet, and the cancelled jog, where it has not
\* returned yet, has issued its three cleanup writes and called done().
C33_CleanupBeforeCanceller ==
    [][\A d \in Callers :
          LET m == proc[d].op.m
              c == currentOp[m]
          IN  /\ proc[d].pc \in {"cancelWait", "newWait"}
              /\ proc'[d].pc \notin {"cancelWait", "newWait"}
              /\ proc[d].op.kind \in {"Jog", "SetPower", "SetRPM", "Stop", "GoTo"}
              /\ proc[c].op.kind = "home"
              /\ proc[c].pc \in InOpPcs
              => /\ Writes(proc[d].log) = << >>
                 /\ proc[c].pc = "done2"
                 /\ opClosed[c]
                 /\ CleanupIssued(proc[c].log, m)]_vars

\* a SetRPM that cancelled a homing wrote its first register after the three
\* cleanup writes of the homing
C33_Witness ==
    \E c, d \in Callers :
        /\ c # d /\ proc[c].op.m = proc[d].op.m
        /\ proc[c].op.kind = "home" /\ cancelledAt[c] = "waiting"
        /\ proc[c].pc \in {"done2", "idle"}
        /\ Len(Writes(proc[c].log)) >= 3
        /\ LET w == Writes(proc[c].log)
               n == Len(w)
           IN  /\ <<w[n - 2].reg, w[n - 2].val>> = <<swMode, 0>>
               /\ <<w[n - 1].reg, w[n - 1].val>> = <<rampMode, modeVelPos>>
               /\ <<w[n].reg, w[n].val>> = <<vMax, 0>>
        /\ proc[d].op.kind = "SetRPM"
        /\ Len(Writes(proc[d].log)) = 1

\* the caller is inside the register-write sequence of a motion command: it
\* has issued a write of the sequence and has writes of it left
MidSequence(c) ==
    /\ proc[c].pc \in {"jog_w", "rpm_w", "goto_w", "hjog_w"}
    /\ proc[c].queue # << >>
    /\ proc[c].log # << >>
    /\ proc[c].log[Len(proc[c].log)].k = "w"

\* C34 (as stated): the register-write sequences of two motion commands
\* running concurrently on one instance do not interleave: no command issues
\* a write while another is inside its sequence, so two commands (here: with
\* different arguments) are never both inside their sequences.
C34_Original ==
    \A c, d \in Callers :
        c # d /\ proc[c].op.m = proc[d].op.m /\ proc[c].op # proc[d].op =>
            ~(MidSequence(c) /\ MidSequence(d))

\* C35 (as stated): between the moving check of ResetZeroPosition and its
\* writes of the target-position and actual-position registers no concurrent
\* motion command on the same instance issues a register write.
C35_Original ==
    [][\A c, d \in Callers :
         /\ c # d /\ proc[c].op.m = proc[d].op.m
         /\ proc[c].op.kind = "ResetZeroPosition"
         /\ proc[c].pc = "rz_w"
         /\ \E i \in 1..Len(proc[c].queue) : proc[c].queue[i].reg = xActual
         /\ proc[d].op.kind \in {"Jog", "SetRPM", "GoTo", "GoFor", "home"}
         => ~(/\ proc[d].pc \in {"jog_w", "rpm_w", "goto_w", "hjog_w"}
              /\ Len(proc'[d].log) = Len(proc[d].log) + 1)]_vars

VMaxOfRpm(speed) ==
    CASE speed = 5000 -> 54229
      [] speed = 25000 -> 271146
      [] speed >= 50000 -> 542293

VMaxWrites(l) ==
    {i \in 1..Len(l) : l[i].k = "w" /\ l[i].reg = vMax}

\* C37: GoTo and SetRPM write to max-velocity at most once, and the value is
\* that of |rpm| clamped to max_rpm, whatever v_max the configuration or the
\* ramp_parameters of the call hold; the v_max ramp parameter reaches the
\* chip in the setup writes of makeMotor only.
C37_VMaxFromRpmOnly ==
    \A c \in Callers :
        LET p == proc[c]
            x == p.op.extra
        IN  /\ p.op.kind \in {"GoTo", "SetRPM"} =>
                  /\ Cardinality(VMaxWrites(p.log)) <= 1
                  /\ \A i \in VMaxWrites(p.log) :
                         p.log[i].val = VMaxOfRpm(Abs(p.op.rpm))
            /\ p.op.kind = "makeMotor" =>
                  \A i \in VMaxWrites(p.log) :
                     p.log[i].val = IF x.has /\ x.rp.VMax # Nil THEN x.rp.VMax ELSE 0

\* the Motor was built with v_max = 100000 and GoTo(50 rpm) with a v_max
\* override of its own returned nil, having written 54229 to max-velocity
C37_Witness ==
    \E c \in Callers :
        /\ proc[c].op = Call("GoTo", 1, 5000, 0, 32, VMaxOverride)
        /\ \E i \in 1..Len(proc[c].log) : proc[c].log[i] = Ev("w", xTarget, 163840, "ok")
        /\ proc[c].pc = "idle"
        /\ proc[c].result = "ok"
        /\ motor[1].rampParams.VMax = 100000
        /\ LastWritten(proc[c].log, vMax) = 54229

\* the registers the driver reads or writes, by their channel-1 addresses
DriverRegisters ==
    {chopConf, coolConf, drvStatus, rampMode, xActual, vActual, vStart, a1, v1,
     aMax, vMax, dMax, d1, vStop, xTarget, iHoldIRun, vCoolThres, swMode, rampStat}

\* C38: for every register the driver accesses, the address of the register
\* on channel 2 is below 0x80, so that it leaves the write-flag bit alone, and
\* is none of the addresses the driver accesses on channel 1.
C38_ChannelsDisjoint ==
    calc.fn = "shiftAddr" /\ calc.n = 1 /\ calc.args.index = 2
        /\ calc.args.addr \in DriverRegisters =>
        /\ calc.out < 128
        /\ calc.out \notin {shiftAddr(1, r) : r \in DriverRegisters}

\* the status register of the driver block (0x6F) was shifted for channel 2
C38_Witness ==
    /\ calc.fn = "shiftAddr" /\ calc.n = 1
    /\ calc.args = [index |-> 2, addr |-> drvStatus]
    /\ calc.out = 127

\* C39 as stated: for every int32 sg_thresh the value makeMotor writes to the
\* coolstep register carries a threshold in 0..127 in bits 16..22 and nothing
\* else; a threshold in 0..63 is written unchanged, one above 63 as 63
C39_Original ==
    calc.fn = "coolConfig" /\ calc.n = 1 =>
        LET sg == calc.args.sg
            field == calc.out \div 65536
        IN  /\ calc.out % 65536 = 0
            /\ field \in 0..127
            /\ sg \in 0..63 => field = sg
            /\ sg > 63 => field = 63

====
